---------------------------- MODULE Spec2Model ----------------------------
(***************************************************************************)
(* Task-tracking backend (NestJS): user registration, credential           *)
(* validation, JWT issuance and verification, the JWT guard in front of    *)
(* the task / category / comment controllers.                              *)
(*                                                                         *)
(* Library behaviour the source relies on is modelled symbolically:        *)
(*   - bcrypt: a hash is the term {cost, salt, digest}, the digest a       *)
(*     collision-free function of (key, salt, cost), the key being the     *)
(*     first 72 bytes of the password (the rest is ignored);               *)
(*   - jsonwebtoken: a token is {header, payload, signature}, the          *)
(*     signature a MAC term over (secret, header, payload); verification   *)
(*     checks shape, then signature, then expiry (clock >= exp rejects).   *)
(* Time is counted in whole seconds, as the exp / iat claims are.          *)
(***************************************************************************)
EXTENDS Naturals, FiniteSets, Sequences, TLC

VARIABLES
    users,          \* rows of table 'users' (entity User)
    nextUserId,     \* next generated primary key of 'users'
    registered,     \* history: user id -> plaintext password given at registration
    creating,       \* UsersService.create calls suspended after the existence check
    attempt,        \* the POST /auth/login request in flight
    issued,         \* history: tokens handed out by AuthService.login, with the identity
    now,            \* wall clock, seconds
    expiresIn,      \* JWT_EXPIRES_IN, seconds (read once at start-up)
    resp,           \* the last HTTP response sent
    gate,           \* what the JWT guard did with the request answered by resp
    tasks,          \* rows of table 'tasks'
    categories,     \* rows of table 'categories'
    comments,       \* rows of table 'comments'
    nextTaskId,     \* next generated primary key of 'tasks'
    nextCategoryId, \* next generated primary key of 'categories'
    nextCommentId,  \* next generated primary key of 'comments'
    calls           \* CRUD service calls suspended at an await, with what they hold

userVars == <<users, nextUserId, registered, creating>>
tokenVars == <<attempt, issued>>
envVars == <<now, expiresIn>>
crudVars == <<tasks, categories, comments, nextTaskId, nextCategoryId, nextCommentId, calls>>

vars == <<userVars, tokenVars, envVars, resp, gate, crudVars>>

-----------------------------------------------------------------------------
(* Bounds of the model *)

MaxUsers == 3
MaxInFlight == 2
MaxClock == 2
MaxTokens == 2
MaxTTL == 1
MaxCategories == 2
MaxTasks == 2
MaxComments == 2

(* Input alphabets *)

Emails == {"ana@x.com", "bob@x.com"}
FullNames == {"Ana Ruiz"}
Salts == {"saltA", "saltB"}

Null == [null |-> TRUE]

-----------------------------------------------------------------------------
(* bcrypt *)

BcryptCost == 10

\* bcrypt reads at most this many bytes of the password.
BcryptMaxBytes == 72

\* The key bcrypt derives from a password: its first 72 bytes.
bcrypt_key(password) ==
    IF Len(password) <= BcryptMaxBytes THEN password ELSE SubSeq(password, 1, BcryptMaxBytes)

\* The digest of a password under a salt and a cost: a one-way term, collision-free
\* in (key, salt, cost).
bcrypt_digest(password, salt, cost) == <<"bcrypt", cost, salt, bcrypt_key(password)>>

\* bcrypt.genSalt(rounds): a fresh random salt carrying the cost factor.
bcrypt_genSalt(rounds) == {[cost |-> rounds, salt |-> s] : s \in Salts}

\* Variant: the password is kept as it is under the hash's envelope.
bcrypt_hash_plaintext(password, salt) ==
    [alg |-> "2b", cost |-> salt.cost, salt |-> salt.salt, digest |-> password]

\* bcrypt.hash(data, salt): self-describing string {algorithm, cost, salt, digest}.
bcrypt_hash(password, salt) ==
    [alg |-> "2b", cost |-> salt.cost, salt |-> salt.salt,
     digest |-> bcrypt_digest(password, salt.salt, salt.cost)]

\* bcrypt.compare(data, encrypted): re-derive with the embedded salt and cost.
bcrypt_compare(password, encrypted) ==
    encrypted.digest = bcrypt_digest(password, encrypted.salt, encrypted.cost)

\* Passwords are strings of one-byte characters, written as sequences: a short
\* one, and two of 73 bytes that share their first 72 bytes.
Secret1 == <<"s", "e", "c", "r", "e", "t", "1">>
LongPrefix == [i \in 1..BcryptMaxBytes |-> "x"]
LongA == LongPrefix \o <<"a">>
LongB == LongPrefix \o <<"b">>

Passwords == {Secret1, LongA, LongB}

\* CreateUserDto bodies that pass validation (password of at least 6 characters).
CreateUserDtos == [fullName : FullNames, email : Emails, password : Passwords]

-----------------------------------------------------------------------------
(* Table 'users' and UsersService *)

\* SELECT of the given columns of one row.
Select(row, columns) == [c \in columns |-> row[c]]

\* usersRepository.findOne({ where: { email } }) with the entity's default columns
\* (password has select: false).
UserDefaultColumns == {"id", "fullName", "email", "createdAt", "updatedAt"}

\* UsersService.findByEmail: the row with that email, password included, or null.
findByEmail(store, email) ==
    IF \E u \in store : u.email = email
    THEN Select(CHOOSE u \in store : u.email = email,
                {"id", "email", "password", "fullName", "createdAt"})
    ELSE Null

\* Variant: the column is declared without unique: true.
UniqueEmailViolated_notDeclared(store, email) == FALSE

\* The UNIQUE constraint of column users.email, checked by the database on INSERT.
UniqueEmailViolated(store, email) == \E u \in store : u.email = email

\* The row usersRepository.save inserts for a DTO whose password is already hashed.
NewUser(id, dto, hashedPassword, clock) ==
    [id |-> id, fullName |-> dto.fullName, email |-> dto.email,
     password |-> hashedPassword, createdAt |-> clock, updatedAt |-> clock]

-----------------------------------------------------------------------------
(* HTTP responses *)

Response(endpoint, status, body) == [endpoint |-> endpoint, status |-> status, body |-> body]

NoResponse == Response("none", 0, Null)

ConflictBody(message) == [statusCode |-> 409, message |-> message, error |-> "Conflict"]
UnauthorizedBody(message) == [statusCode |-> 401, message |-> message, error |-> "Unauthorized"]
InternalErrorBody == [statusCode |-> 500, message |-> "Internal server error"]

\* passport's info when authentication succeeded.
NoInfo == "none"

NoHeader == [present |-> FALSE]

\* How the request answered by resp passed its guard: the guard of the route
\* ("none" when the route has no guard), the Authorization header and the time of
\* the request, the guard's verdict, the identity it attached as req.user, its
\* internal reason, and the controller method that ran ("none" when none did).
GateRecord(guard, header, clock, passed, user, info, handler) ==
    [guard |-> guard, header |-> header, at |-> clock, passed |-> passed,
     user |-> user, info |-> info, handler |-> handler]

\* A request, sent without Authorization header, to a route that has no guard.
Unguarded(clock, handler) ==
    GateRecord("none", NoHeader, clock, FALSE, Null, NoInfo, handler)

\* A request to a route behind JwtAuthGuard, given the guard's verdict g.
JwtGuarded(header, clock, g, handler) ==
    GateRecord("JwtAuthGuard", header, clock, g.passed, g.user, g.info,
               IF g.passed THEN handler ELSE "none")

NoGate == Unguarded(0, "none")

-----------------------------------------------------------------------------
(* POST /users : UsersController.create -> UsersService.create *)

Idle == [pc |-> "idle"]

FreeSlots == {i \in DOMAIN creating : creating[i] = Null}

\* UsersService.create up to its first await: the existence check by email.
\* An existing email answers 409; otherwise the call goes on to hash and save.
UsersCreateCheck(dto) ==
    /\ IF \E u \in users : u.email = dto.email
       THEN /\ resp' = Response("POST /users", 409, ConflictBody("El email ya está registrado"))
            /\ gate' = Unguarded(now, "UsersController.create")
            /\ UNCHANGED creating
       ELSE /\ FreeSlots # {}
            /\ creating' = [creating EXCEPT ![CHOOSE i \in FreeSlots : TRUE] = dto]
            /\ UNCHANGED <<resp, gate>>
    /\ UNCHANGED <<users, nextUserId, registered, tokenVars, envVars, crudVars>>

\* The INSERT of usersRepository.save: rejected by the UNIQUE constraint on email
\* (an unhandled QueryFailedError, answered 500), otherwise the row is stored and
\* returned as the response body.
UsersSave(store, id, dto, hashedPassword, clock) ==
    IF UniqueEmailViolated(store, dto.email)
    THEN [ok |-> FALSE, store |-> store, row |-> Null]
    ELSE [ok |-> TRUE, store |-> store \cup {NewUser(id, dto, hashedPassword, clock)},
          row |-> NewUser(id, dto, hashedPassword, clock)]

\* UsersService.create after the check: genSalt(10), hash, create, save.
UsersCreateSave(i) ==
    /\ creating[i] # Null
    /\ nextUserId <= MaxUsers
    /\ \E salt \in bcrypt_genSalt(BcryptCost) :
         LET dto == creating[i]
             hashedPassword == bcrypt_hash(dto.password, salt)
             saved == UsersSave(users, nextUserId, dto, hashedPassword, now)
         IN /\ users' = saved.store
            /\ IF saved.ok
               THEN /\ nextUserId' = nextUserId + 1
                    /\ registered' = [j \in DOMAIN registered \cup {nextUserId} |->
                                        IF j = nextUserId THEN dto.password ELSE registered[j]]
                    /\ resp' = Response("POST /users", 201, saved.row)
               ELSE /\ UNCHANGED <<nextUserId, registered>>
                    /\ resp' = Response("POST /users", 500, InternalErrorBody)
    /\ creating' = [creating EXCEPT ![i] = Null]
    /\ gate' = Unguarded(now, "UsersController.create")
    /\ UNCHANGED <<tokenVars, envVars, crudVars>>

-----------------------------------------------------------------------------
(* POST /auth/login : LocalAuthGuard -> LocalStrategy.validate ->            *)
(* AuthService.validateUser, then AuthController.login -> AuthService.login  *)

\* Variant: a missing row is reported as not found instead of null.
validateUserFound_throwsNotFound(user, password) ==
    IF user = Null
    THEN [statusCode |-> 404, message |-> "Usuario no encontrado"]
    ELSE IF bcrypt_compare(password, user.password)
         THEN Select(user, DOMAIN user \ {"password"})
         ELSE Null

\* AuthService.validateUser after the lookup: the row without its password when the
\* row exists and the password matches its hash, null otherwise.
validateUserFound(user, password) ==
    IF user # Null /\ bcrypt_compare(password, user.password)
    THEN Select(user, DOMAIN user \ {"password"})
    ELSE Null

\* AuthService.validateUser(email, password).
validateUser(store, email, password) ==
    validateUserFound(findByEmail(store, email), password)

\* Variant: the null result is passed on as req.user instead of thrown.
LocalStrategy_validate_noThrow(user) == [ok |-> TRUE, user |-> user]

\* LocalStrategy.validate: a null result is answered 401 'Credenciales inválidas'.
LocalStrategy_validate(user) ==
    IF user = Null
    THEN [ok |-> FALSE, response |-> Response("POST /auth/login", 401,
                                              UnauthorizedBody("Credenciales inválidas"))]
    ELSE [ok |-> TRUE, user |-> user]

\* The whole guard of POST /auth/login for given credentials, on a given store.
LocalAuthGuard(store, email, password) ==
    LocalStrategy_validate(validateUser(store, email, password))

\* Variant: a login attempt touches the rows of 'users' (a last-access stamp).
FrameLogin_touchesUsers ==
    /\ users' = {[u EXCEPT !.updatedAt = now] : u \in users}
    /\ UNCHANGED <<nextUserId, registered, creating, envVars, crudVars>>

\* What no step of a login attempt writes: the user store, the configuration,
\* the other tables. AuthService only reads, through findByEmail.
FrameLogin == UNCHANGED <<userVars, envVars, crudVars>>

\* Step 1 of a login attempt: validateUser awaits findByEmail.
LoginLookup(email, password) ==
    /\ attempt = Idle
    /\ attempt' = [pc |-> "lookedUp", email |-> email, password |-> password,
                   user |-> findByEmail(users, email)]
    /\ UNCHANGED <<issued, resp, gate>>
    /\ FrameLogin

\* Step 2: validateUser awaits bcrypt.compare, LocalStrategy.validate decides.
LoginVerify ==
    /\ attempt.pc = "lookedUp"
    /\ LET v == LocalStrategy_validate(validateUserFound(attempt.user, attempt.password))
       IN IF v.ok
          THEN /\ attempt' = [pc |-> "validated", user |-> v.user]
               /\ UNCHANGED <<resp, gate>>
          ELSE /\ attempt' = Idle
               /\ resp' = v.response
               /\ gate' = GateRecord("LocalAuthGuard", NoHeader, now, FALSE, Null, NoInfo, "none")
    /\ UNCHANGED issued
    /\ FrameLogin

-----------------------------------------------------------------------------
(* Token issuer and verifier: JwtModule.registerAsync, jsonwebtoken *)

JWT_SECRET == "JWT_SECRET"
OtherSecret == "another-secret"

JwtHeader == [alg |-> "HS256", typ |-> "JWT"]

\* The MAC over header and payload under a key: a term only the key's holder can build.
hmac(secret, header, payload) == [key |-> secret, header |-> header, payload |-> payload]

\* jsonwebtoken sign with signOptions { expiresIn }: iat = now, exp = iat + expiresIn.
jwt_sign(payload, secret, ttl, clock) ==
    LET claims == [k \in DOMAIN payload \cup {"iat", "exp"} |->
                      IF k = "iat" THEN clock
                      ELSE IF k = "exp" THEN clock + ttl
                      ELSE payload[k]]
    IN [header |-> JwtHeader, payload |-> claims,
        signature |-> hmac(secret, JwtHeader, claims)]

\* A string that is not three base64url segments.
MalformedToken == [malformed |-> TRUE]

\* Variant: the token is decoded, its signature not verified.
jwt_verify_decodeOnly(token, secretOrKey, clock, ignoreExpiration) ==
    IF "payload" \notin DOMAIN token
    THEN [ok |-> FALSE, error |-> "jwt malformed"]
    ELSE IF ~ignoreExpiration /\ clock >= token.payload.exp
    THEN [ok |-> FALSE, error |-> "jwt expired"]
    ELSE [ok |-> TRUE, payload |-> token.payload]

\* Variant: a token is expired only once the clock is past exp.
jwt_verify_expiredAfter(token, secretOrKey, clock, ignoreExpiration) ==
    IF "payload" \notin DOMAIN token
    THEN [ok |-> FALSE, error |-> "jwt malformed"]
    ELSE IF token.signature # hmac(secretOrKey, token.header, token.payload)
    THEN [ok |-> FALSE, error |-> "invalid signature"]
    ELSE IF ~ignoreExpiration /\ clock > token.payload.exp
    THEN [ok |-> FALSE, error |-> "jwt expired"]
    ELSE [ok |-> TRUE, payload |-> token.payload]

\* jsonwebtoken verify as passport-jwt calls it with { ignoreExpiration: false }:
\* shape, then signature, then expiry (expired when clock >= exp).
jwt_verify(token, secretOrKey, clock, ignoreExpiration) ==
    IF "payload" \notin DOMAIN token
    THEN [ok |-> FALSE, error |-> "jwt malformed"]
    ELSE IF token.signature # hmac(secretOrKey, token.header, token.payload)
    THEN [ok |-> FALSE, error |-> "invalid signature"]
    ELSE IF ~ignoreExpiration /\ clock >= token.payload.exp
    THEN [ok |-> FALSE, error |-> "jwt expired"]
    ELSE [ok |-> TRUE, payload |-> token.payload]

\* An object literal { name: obj.name, ... } once serialised: a property obj does not
\* have reads undefined and is left out of the JSON.
Pick(obj, names) == [k \in names \cap DOMAIN obj |-> obj[k]]

\* Variant: the identity is returned as it came.
AuthService_login_wholeUser(user, secret, ttl, clock) ==
    [access_token |-> jwt_sign([email |-> user.email, sub |-> user.id], secret, ttl, clock),
     user |-> user]

\* AuthService.login(user): payload { email, sub: id }, signed; the token and the
\* public profile { id, email, fullName }. Nothing checks that user has these.
AuthService_login(user, secret, ttl, clock) ==
    LET payload == [k \in ({"email"} \cap DOMAIN user) \cup
                           (IF "id" \in DOMAIN user THEN {"sub"} ELSE {}) |->
                       IF k = "sub" THEN user.id ELSE user[k]]
    IN [access_token |-> jwt_sign(payload, secret, ttl, clock),
        user |-> Pick(user, {"id", "email", "fullName"})]

\* Step 3 of a login attempt: AuthController.login returns AuthService.login(req.user);
\* a @Post handler answers 201.
LoginIssue ==
    /\ attempt.pc = "validated"
    /\ LET result == AuthService_login(attempt.user, JWT_SECRET, expiresIn, now)
           entry == [token |-> result.access_token, identity |-> attempt.user]
       IN /\ entry \in issued \/ Cardinality(issued) < MaxTokens
          /\ issued' = issued \cup {entry}
          /\ resp' = Response("POST /auth/login", 201, result)
    /\ attempt' = Idle
    /\ gate' = GateRecord("LocalAuthGuard", NoHeader, now, TRUE, attempt.user, NoInfo,
                          "AuthController.login")
    /\ FrameLogin

\* AuthController.login for a request whose req.user did not come from
\* validateUser (a caller error): AuthService.login(req.user) all the same.
LoginWith(user) ==
    /\ attempt = Idle
    /\ LET result == AuthService_login(user, JWT_SECRET, expiresIn, now)
           entry == [token |-> result.access_token, identity |-> user]
       IN /\ entry \in issued \/ Cardinality(issued) < MaxTokens
          /\ issued' = issued \cup {entry}
          /\ resp' = Response("POST /auth/login", 201, result)
    /\ gate' = GateRecord("LocalAuthGuard", NoHeader, now, TRUE, user, NoInfo,
                          "AuthController.login")
    /\ UNCHANGED attempt
    /\ FrameLogin

-----------------------------------------------------------------------------
(* Authorization gate: JwtAuthGuard = AuthGuard('jwt') over JwtStrategy *)

AuthorizationHeader(scheme, credentials) ==
    [present |-> TRUE, scheme |-> scheme, credentials |-> credentials]
Bearer(token) == AuthorizationHeader("Bearer", token)

\* ExtractJwt.fromAuthHeaderAsBearerToken(): the credentials of a Bearer header, or null.
fromAuthHeaderAsBearerToken(header) ==
    IF header.present /\ header.scheme = "Bearer" THEN header.credentials ELSE Null

\* Variant: validate loads the subject from the user store and refuses when the
\* row is gone.
JwtStrategy_validate_lookup(payload) ==
    IF \E u \in users : u.id = payload.sub
    THEN [userId |-> payload.sub, email |-> payload.email]
    ELSE Null

\* Variant: the subject is attached as id, not userId.
JwtStrategy_validate_id(payload) == [id |-> payload.sub, email |-> payload.email]

\* JwtStrategy.validate(payload): the identity attached as req.user.
JwtStrategy_validate(payload) == [userId |-> payload.sub, email |-> payload.email]

\* Variant: the strategy is configured with ignoreExpiration: true.
JwtStrategy_authenticate_ignoreExpiration(header, clock) ==
    LET token == fromAuthHeaderAsBearerToken(header)
    IN IF token = Null
       THEN [user |-> Null, info |-> "No auth token"]
       ELSE LET v == jwt_verify(token, JWT_SECRET, clock, TRUE)
            IN IF v.ok
               THEN [user |-> JwtStrategy_validate(v.payload), info |-> NoInfo]
               ELSE [user |-> Null, info |-> v.error]

\* passport-jwt Strategy.authenticate with the options of JwtStrategy's constructor:
\* success(user) or fail(info).
JwtStrategy_authenticate(header, clock) ==
    LET token == fromAuthHeaderAsBearerToken(header)
    IN IF token = Null
       THEN [user |-> Null, info |-> "No auth token"]
       ELSE LET v == jwt_verify(token, JWT_SECRET, clock, FALSE)
            IN IF v.ok
               THEN [user |-> JwtStrategy_validate(v.payload), info |-> NoInfo]
               ELSE [user |-> Null, info |-> v.error]

UnauthorizedDefaultBody == [statusCode |-> 401, message |-> "Unauthorized"]

\* Variant: the guard overrides handleRequest and reports the failure reason.
JwtAuthGuard_reportsInfo(header, clock) ==
    LET a == JwtStrategy_authenticate(header, clock)
    IN IF a.user = Null
       THEN [passed |-> FALSE, user |-> Null, info |-> a.info,
             status |-> 401, body |-> UnauthorizedBody(a.info)]
       ELSE [passed |-> TRUE, user |-> a.user, info |-> NoInfo]

\* Variant: a request without a usable token is let through anonymously.
JwtAuthGuard_optional(header, clock) ==
    LET a == JwtStrategy_authenticate(header, clock)
    IN [passed |-> TRUE, user |-> a.user, info |-> a.info]

\* JwtAuthGuard.canActivate with AuthGuard's own handleRequest: without a user it
\* throws UnauthorizedException(); the reason (info) stays inside the server.
JwtAuthGuard(header, clock) ==
    LET a == JwtStrategy_authenticate(header, clock)
    IN IF a.user = Null
       THEN [passed |-> FALSE, user |-> Null, info |-> a.info,
             status |-> 401, body |-> UnauthorizedDefaultBody]
       ELSE [passed |-> TRUE, user |-> a.user, info |-> NoInfo]

-----------------------------------------------------------------------------
(* What a client can put in the Authorization header *)

UserIds == 1..MaxUsers

IssuedTokens == {i.token : i \in issued}

\* The payload of an issued token with one claim changed.
TamperedPayloads(t) ==
    {[t.payload EXCEPT !.sub = s] : s \in UserIds \ {t.payload.sub}}
    \cup {[t.payload EXCEPT !.email = e] : e \in Emails \ {t.payload.email}}
    \cup {[t.payload EXCEPT !.exp = t.payload.exp + 1]}

\* A signature segment with a bit flipped: no longer the MAC of anything.
Flipped(signature) == [flipped |-> signature]

\* Tokens derived from an issued token t without the server's secret: the payload
\* changed under the old signature, the signature flipped or taken from another
\* issued token, the payload changed and signed again under another key.
Forgeries(t) ==
    {[t EXCEPT !.payload = p] : p \in TamperedPayloads(t)}
    \cup {[t EXCEPT !.signature = Flipped(t.signature)]}
    \cup {[t EXCEPT !.signature = o.signature] : o \in IssuedTokens \ {t}}
    \cup {[t EXCEPT !.payload = p, !.signature = hmac(OtherSecret, t.header, p)] :
             p \in TamperedPayloads(t) \cup {t.payload}}

ForgedTokens == (UNION {Forgeries(t) : t \in IssuedTokens}) \ IssuedTokens

Headers ==
    {NoHeader, AuthorizationHeader("Basic", "YW5hOnNlY3JldDE="), Bearer(MalformedToken)}
    \cup {Bearer(t) : t \in IssuedTokens \cup ForgedTokens}

-----------------------------------------------------------------------------
(* Sorting a table by a column *)

\* The orders in which the rows of a set can come back when sorted by key, ties in any
\* order; desc for ORDER BY ... DESC.
RECURSIVE OrderedBy(_, _, _)
OrderedBy(rows, key, desc) ==
    IF rows = {} THEN {<< >>}
    ELSE LET first == {r \in rows : \A o \in rows :
                          IF desc THEN r[key] >= o[key] ELSE r[key] <= o[key]}
         IN UNION {{<<r>> \o rest : rest \in OrderedBy(rows \ {r}, key, desc)} : r \in first}

-----------------------------------------------------------------------------
(* Rows, DTOs and errors shared by the CRUD services *)

\* SQL NULL in a text column and in a foreign-key (uuid) column.
NullText == "NULL"
NullId == 0

\* { ...base, ...over }: the properties of over win.
Merge(base, over) ==
    [k \in DOMAIN base \cup DOMAIN over |-> IF k \in DOMAIN over THEN over[k] ELSE base[k]]

\* repository.create(plain): the entity's columns, from plain where it has them.
Entity(columns, defaults, plain) == Select(Merge(defaults, plain), columns)

NotFoundBody(message) == [statusCode |-> 404, message |-> message, error |-> "Not Found"]

\* req.user as the guard leaves it for the controller method.
ReqUser(header) == JwtAuthGuard(header, now).user

\* A route behind JwtAuthGuard: the guard's verdict on the header decides between
\* the 401 and the handler; Handled is the controller method's effect.
Guard(endpoint, handler, header, Handled, Refused) ==
    LET g == JwtAuthGuard(header, now)
    IN /\ IF g.passed
          THEN Handled
          ELSE /\ resp' = Response(endpoint, g.status, g.body)
               /\ Refused
       /\ gate' = JwtGuarded(header, now, g, handler)

-----------------------------------------------------------------------------
(* CategoriesController -> CategoriesService, behind JwtAuthGuard *)

CategoryColumns == {"id", "name", "description", "color", "createdAt", "updatedAt"}

CategoryNames == {"Work", "Home"}

\* CreateCategoryDto bodies: name, optional description and color.
CreateCategoryDtos ==
    {[name |-> n] : n \in CategoryNames}
    \cup {[name |-> "Work", description |-> "Office tasks", color |-> "#FF5733"]}

\* UpdateCategoryDto bodies: every field optional.
UpdateCategoryDtos ==
    {[name |-> n] : n \in CategoryNames} \cup {[color |-> "#FF5733"]}

CategoryIds == 1..nextCategoryId

CategoryDefaults(id, clock) ==
    [id |-> id, description |-> NullText, color |-> "#000000",
     createdAt |-> clock, updatedAt |-> clock]

\* The UNIQUE constraint of column categories.name, for the row with this id.
UniqueNameViolated(store, id, name) == \E c \in store : c.name = name /\ c.id # id

\* The foreign key tasks.category_id -> categories.id, checked on DELETE.
CategoryReferenced(id) == \E t \in tasks : t.category_id = id

\* CategoriesService.create(dto).
CategoriesService_create(dto, clock) ==
    IF \E c \in categories : c.name = dto.name
    THEN [status |-> 409, body |-> ConflictBody("Ya existe una categoría con ese nombre"),
          store |-> categories]
    ELSE LET category == Entity(CategoryColumns, CategoryDefaults(nextCategoryId, clock),
                                Merge(dto, [color |-> IF "color" \in DOMAIN dto
                                                      THEN dto.color ELSE "#000000"]))
         IN [status |-> 201, body |-> category, store |-> categories \cup {category}]

\* CategoriesService.findOne(id).
CategoriesService_findOne(id) ==
    IF \E c \in categories : c.id = id
    THEN [status |-> 200, body |-> CHOOSE c \in categories : c.id = id]
    ELSE [status |-> 404, body |-> NotFoundBody("Categoría no encontrada")]

\* CategoriesService.update(id, dto).
CategoriesService_update(id, dto, clock) ==
    LET found == CategoriesService_findOne(id)
        category == found.body
    IN IF found.status = 404
       THEN [status |-> 404, body |-> found.body, store |-> categories]
       ELSE IF /\ "name" \in DOMAIN dto
               /\ dto.name # category.name
               /\ \E c \in categories : c.name = dto.name
       THEN [status |-> 409, body |-> ConflictBody("Ya existe una categoría con ese nombre"),
             store |-> categories]
       ELSE LET assigned == Merge(category, dto)
                saved == IF assigned = category THEN category
                         ELSE [assigned EXCEPT !.updatedAt = clock]
            IN [status |-> 200, body |-> saved,
                store |-> (categories \ {category}) \cup {saved}]

\* CategoriesService.remove(id); the DELETE fails while a task refers to the row.
CategoriesService_remove(id) ==
    LET found == CategoriesService_findOne(id)
    IN IF found.status = 404
       THEN [status |-> 404, body |-> found.body, store |-> categories]
       ELSE IF CategoryReferenced(id)
       THEN [status |-> 500, body |-> InternalErrorBody, store |-> categories]
       ELSE [status |-> 200, body |-> Null, store |-> categories \ {found.body}]

FrameCategories ==
    UNCHANGED <<userVars, tokenVars, envVars, tasks, comments,
                nextTaskId, nextCommentId, calls>>

\* POST /categories
CategoriesCreate(header, dto) ==
    /\ nextCategoryId <= MaxCategories
    /\ Guard("POST /categories", "CategoriesController.create", header,
                LET r == CategoriesService_create(dto, now)
                IN /\ resp' = Response("POST /categories", r.status, r.body)
                   /\ categories' = r.store
                   /\ nextCategoryId' = IF r.status = 201 THEN nextCategoryId + 1
                                        ELSE nextCategoryId,
             UNCHANGED <<categories, nextCategoryId>>)
    /\ FrameCategories

\* GET /categories : CategoriesService.findAll, newest first.
CategoriesFindAll(header) ==
    /\ Guard("GET /categories", "CategoriesController.findAll", header,
                \E list \in OrderedBy(categories, "createdAt", TRUE) :
                   resp' = Response("GET /categories", 200, list),
             TRUE)
    /\ UNCHANGED <<categories, nextCategoryId>>
    /\ FrameCategories

\* GET /categories/:id
CategoriesFindOne(header, id) ==
    /\ Guard("GET /categories/:id", "CategoriesController.findOne", header,
                LET r == CategoriesService_findOne(id)
                IN resp' = Response("GET /categories/:id", r.status, r.body),
             TRUE)
    /\ UNCHANGED <<categories, nextCategoryId>>
    /\ FrameCategories

\* PATCH /categories/:id
CategoriesUpdate(header, id, dto) ==
    /\ Guard("PATCH /categories/:id", "CategoriesController.update", header,
                LET r == CategoriesService_update(id, dto, now)
                IN /\ resp' = Response("PATCH /categories/:id", r.status, r.body)
                   /\ categories' = r.store,
             UNCHANGED categories)
    /\ UNCHANGED nextCategoryId
    /\ FrameCategories

\* DELETE /categories/:id
CategoriesRemove(header, id) ==
    /\ Guard("DELETE /categories/:id", "CategoriesController.remove", header,
                LET r == CategoriesService_remove(id)
                IN /\ resp' = Response("DELETE /categories/:id", r.status, r.body)
                   /\ categories' = r.store,
             UNCHANGED categories)
    /\ UNCHANGED nextCategoryId
    /\ FrameCategories

-----------------------------------------------------------------------------
(* CategoriesService calls step by step: at each await other requests run *)

FreeCalls == {i \in DOMAIN calls : calls[i] = Null}

\* A service call suspends at an await, holding what it has read so far.
Suspend(call) ==
    /\ FreeCalls # {}
    /\ calls' = [calls EXCEPT ![CHOOSE i \in FreeCalls : TRUE] = call]
    /\ UNCHANGED <<resp, gate>>

\* The response of a request, sent when its service call returns or throws; g is
\* the guard's record of that request.
Answer(endpoint, status, body, g) ==
    /\ resp' = Response(endpoint, status, body)
    /\ gate' = g

\* The guard's record of a request that passed it.
Passed(header, handler) == JwtGuarded(header, now, JwtAuthGuard(header, now), handler)

\* categoriesRepository.save(entity): the row with the entity's id is written
\* (inserted when no such row is stored), unless the UNIQUE constraint on name
\* refuses it.
CategoriesSave(store, entity, clock) ==
    LET current == {c \in store : c.id = entity.id}
        saved == IF entity \in current THEN entity ELSE [entity EXCEPT !.updatedAt = clock]
    IN IF UniqueNameViolated(store, entity.id, entity.name)
       THEN [ok |-> FALSE, row |-> Null, store |-> store]
       ELSE [ok |-> TRUE, row |-> saved, store |-> (store \ current) \cup {saved}]

FrameCategoriesStep ==
    UNCHANGED <<userVars, tokenVars, envVars, tasks, comments, nextTaskId, nextCommentId>>

\* CategoriesService.create up to its first await: findOne by name.
CategoriesCreateCheck(header, dto) ==
    /\ JwtAuthGuard(header, now).passed
    /\ IF \E c \in categories : c.name = dto.name
       THEN /\ Answer("POST /categories", 409,
                      ConflictBody("Ya existe una categoría con ese nombre"),
                      Passed(header, "CategoriesController.create"))
            /\ UNCHANGED calls
       ELSE Suspend([op |-> "CategoriesService.create", dto |-> dto,
                     gate |-> Passed(header, "CategoriesController.create")])
    /\ UNCHANGED <<categories, nextCategoryId>>
    /\ FrameCategoriesStep

\* CategoriesService.create after the check: create and save.
CategoriesCreateSave(i) ==
    /\ calls[i] # Null
    /\ calls[i].op = "CategoriesService.create"
    /\ nextCategoryId <= MaxCategories
    /\ LET dto == calls[i].dto
           category == Entity(CategoryColumns, CategoryDefaults(nextCategoryId, now),
                              Merge(dto, [color |-> IF "color" \in DOMAIN dto
                                                    THEN dto.color ELSE "#000000"]))
           r == CategoriesSave(categories, category, now)
       IN /\ categories' = r.store
          /\ nextCategoryId' = IF r.ok THEN nextCategoryId + 1 ELSE nextCategoryId
          /\ Answer("POST /categories", IF r.ok THEN 201 ELSE 500,
                    IF r.ok THEN r.row ELSE InternalErrorBody, calls[i].gate)
    /\ calls' = [calls EXCEPT ![i] = Null]
    /\ FrameCategoriesStep

\* CategoriesService.update up to its first await: findOne(id). A name that is
\* given and differs from the loaded one sends the call to the lookup by name.
CategoriesUpdateLoad(header, id, dto) ==
    /\ JwtAuthGuard(header, now).passed
    /\ LET found == CategoriesService_findOne(id)
       IN IF found.status = 404
          THEN /\ Answer("PATCH /categories/:id", 404, found.body,
                         Passed(header, "CategoriesController.update"))
               /\ UNCHANGED calls
          ELSE Suspend([op |-> "CategoriesService.update", dto |-> dto,
                        category |-> found.body,
                        pc |-> IF "name" \in DOMAIN dto /\ dto.name # found.body.name
                               THEN "check" ELSE "save",
                        gate |-> Passed(header, "CategoriesController.update")])
    /\ UNCHANGED <<categories, nextCategoryId>>
    /\ FrameCategoriesStep

\* CategoriesService.update at its second await: findOne by the new name.
CategoriesUpdateCheck(i) ==
    /\ calls[i] # Null
    /\ calls[i].op = "CategoriesService.update"
    /\ calls[i].pc = "check"
    /\ IF \E c \in categories : c.name = calls[i].dto.name
       THEN /\ Answer("PATCH /categories/:id", 409,
                      ConflictBody("Ya existe una categoría con ese nombre"), calls[i].gate)
            /\ calls' = [calls EXCEPT ![i] = Null]
       ELSE /\ calls' = [calls EXCEPT ![i].pc = "save"]
            /\ UNCHANGED <<resp, gate>>
    /\ UNCHANGED <<categories, nextCategoryId>>
    /\ FrameCategoriesStep

\* CategoriesService.update at its end: Object.assign on the loaded entity, save.
CategoriesUpdateSave(i) ==
    /\ calls[i] # Null
    /\ calls[i].op = "CategoriesService.update"
    /\ calls[i].pc = "save"
    /\ LET r == CategoriesSave(categories,
                               Entity(CategoryColumns, calls[i].category, calls[i].dto), now)
       IN /\ categories' = r.store
          /\ Answer("PATCH /categories/:id", IF r.ok THEN 200 ELSE 500,
                    IF r.ok THEN r.row ELSE InternalErrorBody, calls[i].gate)
    /\ calls' = [calls EXCEPT ![i] = Null]
    /\ UNCHANGED nextCategoryId
    /\ FrameCategoriesStep

\* CategoriesService.remove up to its first await: findOne(id).
CategoriesRemoveLoad(header, id) ==
    /\ JwtAuthGuard(header, now).passed
    /\ LET found == CategoriesService_findOne(id)
       IN IF found.status = 404
          THEN /\ Answer("DELETE /categories/:id", 404, found.body,
                         Passed(header, "CategoriesController.remove"))
               /\ UNCHANGED calls
          ELSE Suspend([op |-> "CategoriesService.remove", category |-> found.body,
                        gate |-> Passed(header, "CategoriesController.remove")])
    /\ UNCHANGED <<categories, nextCategoryId>>
    /\ FrameCategoriesStep

\* CategoriesService.remove at its end: the DELETE of the row with the loaded id.
CategoriesRemoveDelete(i) ==
    /\ calls[i] # Null
    /\ calls[i].op = "CategoriesService.remove"
    /\ LET id == calls[i].category.id
       IN IF CategoryReferenced(id)
          THEN /\ Answer("DELETE /categories/:id", 500, InternalErrorBody, calls[i].gate)
               /\ UNCHANGED categories
          ELSE /\ Answer("DELETE /categories/:id", 200, Null, calls[i].gate)
               /\ categories' = {c \in categories : c.id # id}
    /\ calls' = [calls EXCEPT ![i] = Null]
    /\ UNCHANGED nextCategoryId
    /\ FrameCategoriesStep

-----------------------------------------------------------------------------
(* TaskController -> TaskService, behind JwtAuthGuard *)

TaskColumns == {"id", "name", "description", "storyPoints", "dueDate", "status",
                "category_id", "created_by", "assigned_to", "createdAt", "updatedAt"}

\* SQL NULL in the timestamp column due_date.
NullDate == 0

\* new Date(isoString), in days since the epoch.
NewDate(iso) == CASE iso = "2026-01-01" -> 20454
                  [] iso = "2026-01-02" -> 20455

\* CreateTaskDto bodies. ValidationPipe is built without whitelist, so a body may
\* carry properties the DTO does not declare, such as created_by.
CreateTaskDtos ==
    {[name |-> "Write report"],
     [name |-> "Write report", status |-> "DONE", assigned_to |-> 2],
     [name |-> "Buy milk", category_id |-> 1, dueDate |-> "2026-01-01", storyPoints |-> 3],
     [name |-> "Buy milk", created_by |-> 2]}

\* Partial<CreateTaskDto> bodies of PATCH /tasks/:id.
UpdateTaskDtos ==
    {[status |-> "IN_PROGRESS"],
     [name |-> "Buy milk", dueDate |-> "2026-01-02"],
     [category_id |-> 2, assigned_to |-> 1]}

TaskIds == 1..nextTaskId

TaskDefaults(id, clock) ==
    [id |-> id, description |-> NullText, storyPoints |-> 0, dueDate |-> NullDate,
     status |-> "PENDING", category_id |-> NullId, assigned_to |-> NullId,
     createdAt |-> clock, updatedAt |-> clock]

\* The foreign keys of table 'tasks': category_id -> categories.id,
\* created_by -> users.id, assigned_to -> users.id.
TaskForeignKeysHold(task) ==
    /\ task.category_id = NullId \/ \E c \in categories : c.id = task.category_id
    /\ \E u \in users : u.id = task.created_by
    /\ task.assigned_to = NullId \/ \E u \in users : u.id = task.assigned_to

\* The foreign key comments.which_todo -> tasks.id, checked on DELETE.
TaskReferenced(id) == \E c \in comments : c.which_todo = id

\* A row of 'users' as a joined relation: the default columns, password left out.
UserRelation(id) ==
    IF \E u \in users : u.id = id
    THEN Select(CHOOSE u \in users : u.id = id, UserDefaultColumns)
    ELSE Null

\* A task with relations category, createdBy and assignedTo joined.
TaskWithRelations(task) ==
    Merge(task, [category |-> IF \E c \in categories : c.id = task.category_id
                              THEN CHOOSE c \in categories : c.id = task.category_id
                              ELSE Null,
                 createdBy |-> UserRelation(task.created_by),
                 assignedTo |-> UserRelation(task.assigned_to)])

\* Variant: the DTO is spread after created_by, so a created_by in the body wins.
TaskService_create_bodyWins(dto, userId, clock) ==
    LET task == Entity(TaskColumns, TaskDefaults(nextTaskId, clock),
                       Merge([created_by |-> userId,
                              dueDate |-> IF "dueDate" \in DOMAIN dto
                                          THEN NewDate(dto.dueDate) ELSE NullDate], dto))
    IN IF TaskForeignKeysHold(task)
       THEN [status |-> 201, body |-> task, store |-> tasks \cup {task}]
       ELSE [status |-> 500, body |-> InternalErrorBody, store |-> tasks]

\* TaskService.create(dto, userId).
TaskService_create(dto, userId, clock) ==
    LET task == Entity(TaskColumns, TaskDefaults(nextTaskId, clock),
                       Merge(dto, [created_by |-> userId,
                                   dueDate |-> IF "dueDate" \in DOMAIN dto
                                               THEN NewDate(dto.dueDate) ELSE NullDate]))
    IN IF TaskForeignKeysHold(task)
       THEN [status |-> 201, body |-> task, store |-> tasks \cup {task}]
       ELSE [status |-> 500, body |-> InternalErrorBody, store |-> tasks]

\* GetTasksDto queries: optional status, category_id, assigned_to, limit, offset.
GetTasksDtos ==
    {<< >>,
     [status |-> "DONE"],
     [category_id |-> 1, assigned_to |-> 2],
     [limit |-> 1],
     [limit |-> 1, offset |-> 1],
     [status |-> "PENDING", offset |-> 1],
     [status |-> "DONE", limit |-> 1, offset |-> 1]}

DefaultLimit == 10
DefaultOffset == 0

\* Variant: where() in place of andWhere(), each call replacing the clause built
\* so far, so that only the last filter given applies.
TaskMatches_where(task, dto) ==
    IF "assigned_to" \in DOMAIN dto THEN task.assigned_to = dto.assigned_to
    ELSE IF "category_id" \in DOMAIN dto THEN task.category_id = dto.category_id
    ELSE "status" \in DOMAIN dto => task.status = dto.status

\* The WHERE clause TaskService.findAll composes: one AND term per filter given.
TaskMatches(task, dto) ==
    /\ "status" \in DOMAIN dto => task.status = dto.status
    /\ "category_id" \in DOMAIN dto => task.category_id = dto.category_id
    /\ "assigned_to" \in DOMAIN dto => task.assigned_to = dto.assigned_to

\* skip(offset).take(limit) of an ordered result.
Page(list, offset, limit) ==
    SubSeq(list, offset + 1, IF offset + limit <= Len(list) THEN offset + limit ELSE Len(list))

\* Variant: orderBy('task.createdAt', 'ASC').
TaskService_findAll_oldestFirst(dto) ==
    LET matching == {t \in tasks : TaskMatches(t, dto)}
        total == Cardinality(matching)
        limit == IF "limit" \in DOMAIN dto THEN dto.limit ELSE DefaultLimit
        offset == IF "offset" \in DOMAIN dto THEN dto.offset ELSE DefaultOffset
    IN {[tasks |-> [i \in DOMAIN Page(list, offset, limit) |->
                       TaskWithRelations(Page(list, offset, limit)[i])],
         total |-> total] : list \in OrderedBy(matching, "createdAt", FALSE)}

\* TaskService.findAll(dto): the possible results { tasks, total }.
TaskService_findAll(dto) ==
    LET matching == {t \in tasks : TaskMatches(t, dto)}
        total == Cardinality(matching)
        limit == IF "limit" \in DOMAIN dto THEN dto.limit ELSE DefaultLimit
        offset == IF "offset" \in DOMAIN dto THEN dto.offset ELSE DefaultOffset
    IN {[tasks |-> [i \in DOMAIN Page(list, offset, limit) |->
                       TaskWithRelations(Page(list, offset, limit)[i])],
         total |-> total] : list \in OrderedBy(matching, "createdAt", TRUE)}

\* TaskService.findOne(id).
TaskService_findOne(id) ==
    IF \E t \in tasks : t.id = id
    THEN [status |-> 200, body |-> TaskWithRelations(CHOOSE t \in tasks : t.id = id),
          row |-> CHOOSE t \in tasks : t.id = id]
    ELSE [status |-> 404, body |-> NotFoundBody("Tarea no encontrada"), row |-> Null]

\* What repository.save writes to a foreign-key column declared both as @Column
\* and as the @JoinColumn of a relation: the id of the relation object when one is
\* loaded on the entity, the column property otherwise.
JoinColumnValue(relation, column) == IF relation = Null THEN column ELSE relation.id

\* The row of 'tasks' that repository.save persists for an entity.
TaskPersisted(entity) ==
    [c \in TaskColumns |->
        CASE c = "category_id" -> JoinColumnValue(entity.category, entity.category_id)
          [] c = "created_by" -> JoinColumnValue(entity.createdBy, entity.created_by)
          [] c = "assigned_to" -> JoinColumnValue(entity.assignedTo, entity.assigned_to)
          [] OTHER -> entity[c]]

\* TaskService.update(id, dto): findOne with the three relations joined, dueDate to
\* a Date, Object.assign, save.
TaskService_update(id, dto, clock) ==
    LET found == TaskService_findOne(id)
        task == found.row
    IN IF found.status = 404
       THEN [status |-> 404, body |-> found.body, store |-> tasks]
       ELSE LET converted == IF "dueDate" \in DOMAIN dto
                             THEN [dto EXCEPT !.dueDate = NewDate(dto.dueDate)] ELSE dto
                assigned == Merge(found.body, converted)
                persisted == TaskPersisted(assigned)
                saved == IF persisted = task THEN task
                         ELSE [persisted EXCEPT !.updatedAt = clock]
            IN IF TaskForeignKeysHold(saved)
               THEN [status |-> 200, body |-> [assigned EXCEPT !.updatedAt = saved.updatedAt],
                     store |-> (tasks \ {task}) \cup {saved}]
               ELSE [status |-> 500, body |-> InternalErrorBody, store |-> tasks]

\* TaskService.remove(id); the DELETE fails while a comment refers to the row.
TaskService_remove(id) ==
    LET found == TaskService_findOne(id)
    IN IF found.status = 404
       THEN [status |-> 404, body |-> found.body, store |-> tasks]
       ELSE IF TaskReferenced(id)
       THEN [status |-> 500, body |-> InternalErrorBody, store |-> tasks]
       ELSE [status |-> 200, body |-> Null, store |-> tasks \ {found.row}]

FrameTasks ==
    UNCHANGED <<userVars, tokenVars, envVars, categories, comments,
                nextCategoryId, nextCommentId, calls>>

\* POST /tasks : create(dto, req.user.userId)
TaskCreate(header, dto) ==
    /\ nextTaskId <= MaxTasks
    /\ Guard("POST /tasks", "TaskController.create", header,
                LET r == TaskService_create(dto, ReqUser(header).userId, now)
                IN /\ resp' = Response("POST /tasks", r.status, r.body)
                   /\ tasks' = r.store
                   /\ nextTaskId' = IF r.status = 201 THEN nextTaskId + 1 ELSE nextTaskId,
             UNCHANGED <<tasks, nextTaskId>>)
    /\ FrameTasks

\* GET /tasks
TaskFindAll(header, dto) ==
    /\ Guard("GET /tasks", "TaskController.findAll", header,
                \E result \in TaskService_findAll(dto) :
                   resp' = Response("GET /tasks", 200, result),
             TRUE)
    /\ UNCHANGED <<tasks, nextTaskId>>
    /\ FrameTasks

\* GET /tasks/:id
TaskFindOne(header, id) ==
    /\ Guard("GET /tasks/:id", "TaskController.findOne", header,
                LET r == TaskService_findOne(id)
                IN resp' = Response("GET /tasks/:id", r.status, r.body),
             TRUE)
    /\ UNCHANGED <<tasks, nextTaskId>>
    /\ FrameTasks

\* PATCH /tasks/:id
TaskUpdate(header, id, dto) ==
    /\ Guard("PATCH /tasks/:id", "TaskController.update", header,
                LET r == TaskService_update(id, dto, now)
                IN /\ resp' = Response("PATCH /tasks/:id", r.status, r.body)
                   /\ tasks' = r.store,
             UNCHANGED tasks)
    /\ UNCHANGED nextTaskId
    /\ FrameTasks

\* DELETE /tasks/:id
TaskRemove(header, id) ==
    /\ Guard("DELETE /tasks/:id", "TaskController.remove", header,
                LET r == TaskService_remove(id)
                IN /\ resp' = Response("DELETE /tasks/:id", r.status, r.body)
                   /\ tasks' = r.store,
             UNCHANGED tasks)
    /\ UNCHANGED nextTaskId
    /\ FrameTasks

-----------------------------------------------------------------------------
(* CommentsController -> CommentsService, behind JwtAuthGuard *)

CommentColumns == {"id", "content", "created_by", "which_todo", "commentDate"}

\* CreateCommentDto bodies; created_by and which_todo are not declared by the DTO
\* and pass a ValidationPipe without whitelist.
CreateCommentDtos ==
    {[content |-> "Looks good"],
     [content |-> "Needs work", created_by |-> 2],
     [content |-> "Moved", which_todo |-> 2]}

CommentIds == 1..nextCommentId

\* Variant: table 'comments' without foreign-key constraints.
CommentForeignKeysHold_notDeclared(comment) == TRUE

\* The foreign keys of table 'comments': which_todo -> tasks.id, created_by -> users.id.
CommentForeignKeysHold(comment) ==
    /\ \E t \in tasks : t.id = comment.which_todo
    /\ \E u \in users : u.id = comment.created_by

\* Variant: create without the call of tasksService.findOne.
CommentsService_create_noTaskCheck(taskId, dto, userId, clock) ==
    LET comment == Entity(CommentColumns, [id |-> nextCommentId, commentDate |-> clock],
                          Merge(dto, [which_todo |-> taskId, created_by |-> userId]))
    IN IF CommentForeignKeysHold(comment)
       THEN [status |-> 201, body |-> comment, store |-> comments \cup {comment}]
       ELSE [status |-> 500, body |-> InternalErrorBody, store |-> comments]

\* CommentsService.create(taskId, dto, userId).
CommentsService_create(taskId, dto, userId, clock) ==
    LET found == TaskService_findOne(taskId)
        comment == Entity(CommentColumns, [id |-> nextCommentId, commentDate |-> clock],
                          Merge(dto, [which_todo |-> taskId, created_by |-> userId]))
    IN IF found.status = 404
       THEN [status |-> 404, body |-> found.body, store |-> comments]
       ELSE IF CommentForeignKeysHold(comment)
       THEN [status |-> 201, body |-> comment, store |-> comments \cup {comment}]
       ELSE [status |-> 500, body |-> InternalErrorBody, store |-> comments]

\* A comment with the relation author joined.
CommentWithAuthor(comment) == Merge(comment, [author |-> UserRelation(comment.created_by)])

\* Variant: find without the where clause on which_todo.
CommentsService_findByTask_all(taskId) ==
    LET found == TaskService_findOne(taskId)
    IN IF found.status = 404
       THEN {[status |-> 404, body |-> found.body]}
       ELSE {[status |-> 200, body |-> [i \in DOMAIN list |-> CommentWithAuthor(list[i])]] :
                list \in OrderedBy(comments, "commentDate", FALSE)}

\* CommentsService.findByTask(taskId): the possible results, oldest first.
CommentsService_findByTask(taskId) ==
    LET found == TaskService_findOne(taskId)
        ofTask == {c \in comments : c.which_todo = taskId}
    IN IF found.status = 404
       THEN {[status |-> 404, body |-> found.body]}
       ELSE {[status |-> 200, body |-> [i \in DOMAIN list |-> CommentWithAuthor(list[i])]] :
                list \in OrderedBy(ofTask, "commentDate", FALSE)}

\* CommentsService.findOne(id), relations author and task joined.
CommentsService_findOne(id) ==
    IF \E c \in comments : c.id = id
    THEN LET comment == CHOOSE c \in comments : c.id = id
         IN [status |-> 200, row |-> comment,
             body |-> Merge(CommentWithAuthor(comment),
                            [task |-> CHOOSE t \in tasks : t.id = comment.which_todo])]
    ELSE [status |-> 404, row |-> Null, body |-> NotFoundBody("Comentario no encontrado")]

\* Variant: remove deletes by the comment's task, delete({ which_todo }).
CommentsService_remove_ofTask(id) ==
    LET found == CommentsService_findOne(id)
    IN IF found.status = 404
       THEN [status |-> 404, body |-> found.body, store |-> comments]
       ELSE [status |-> 200, body |-> Null,
             store |-> {c \in comments : c.which_todo # found.row.which_todo}]

\* CommentsService.remove(id).
CommentsService_remove(id) ==
    LET found == CommentsService_findOne(id)
    IN IF found.status = 404
       THEN [status |-> 404, body |-> found.body, store |-> comments]
       ELSE [status |-> 200, body |-> Null, store |-> comments \ {found.row}]

FrameComments ==
    UNCHANGED <<userVars, tokenVars, envVars, tasks, categories,
                nextTaskId, nextCategoryId, calls>>

\* POST /tasks/:taskId/comments : create(taskId, dto, req.user.userId)
CommentsCreate(header, taskId, dto) ==
    /\ nextCommentId <= MaxComments
    /\ Guard("POST /tasks/:taskId/comments", "CommentsController.create", header,
                LET r == CommentsService_create(taskId, dto, ReqUser(header).userId, now)
                IN /\ resp' = Response("POST /tasks/:taskId/comments", r.status, r.body)
                   /\ comments' = r.store
                   /\ nextCommentId' = IF r.status = 201 THEN nextCommentId + 1
                                       ELSE nextCommentId,
             UNCHANGED <<comments, nextCommentId>>)
    /\ FrameComments

\* GET /tasks/:taskId/comments
CommentsFindByTask(header, taskId) ==
    /\ Guard("GET /tasks/:taskId/comments", "CommentsController.findByTask", header,
                \E r \in CommentsService_findByTask(taskId) :
                   resp' = Response("GET /tasks/:taskId/comments", r.status, r.body),
             TRUE)
    /\ UNCHANGED <<comments, nextCommentId>>
    /\ FrameComments

\* GET /tasks/:taskId/comments/:id : findOne(id); taskId is not used.
CommentsFindOne(header, taskId, id) ==
    /\ Guard("GET /tasks/:taskId/comments/:id", "CommentsController.findOne", header,
                LET r == CommentsService_findOne(id)
                IN resp' = Response("GET /tasks/:taskId/comments/:id", r.status, r.body),
             TRUE)
    /\ UNCHANGED <<comments, nextCommentId>>
    /\ FrameComments

\* DELETE /tasks/:taskId/comments/:id : remove(id); taskId is not used.
CommentsRemove(header, taskId, id) ==
    /\ Guard("DELETE /tasks/:taskId/comments/:id", "CommentsController.remove", header,
                LET r == CommentsService_remove(id)
                IN /\ resp' = Response("DELETE /tasks/:taskId/comments/:id", r.status, r.body)
                   /\ comments' = r.store,
             UNCHANGED comments)
    /\ UNCHANGED nextCommentId
    /\ FrameComments

-----------------------------------------------------------------------------
(* TaskService and CommentsService calls step by step *)

FrameTasksStep ==
    UNCHANGED <<userVars, tokenVars, envVars, categories, comments,
                nextCategoryId, nextCommentId>>

FrameCommentsStep ==
    UNCHANGED <<userVars, tokenVars, envVars, tasks, categories,
                nextTaskId, nextCategoryId>>

\* TaskService.remove up to its first await: findOne(id).
TaskRemoveLoad(header, id) ==
    /\ JwtAuthGuard(header, now).passed
    /\ LET found == TaskService_findOne(id)
       IN IF found.status = 404
          THEN /\ Answer("DELETE /tasks/:id", 404, found.body,
                         Passed(header, "TaskController.remove"))
               /\ UNCHANGED calls
          ELSE Suspend([op |-> "TaskService.remove", task |-> found.row,
                        gate |-> Passed(header, "TaskController.remove")])
    /\ UNCHANGED <<tasks, nextTaskId>>
    /\ FrameTasksStep

\* TaskService.remove at its end: the DELETE of the row with the loaded id, which
\* fails while a comment refers to the row.
TaskRemoveDelete(i) ==
    /\ calls[i] # Null
    /\ calls[i].op = "TaskService.remove"
    /\ LET id == calls[i].task.id
       IN IF TaskReferenced(id)
          THEN /\ Answer("DELETE /tasks/:id", 500, InternalErrorBody, calls[i].gate)
               /\ UNCHANGED tasks
          ELSE /\ Answer("DELETE /tasks/:id", 200, Null, calls[i].gate)
               /\ tasks' = {t \in tasks : t.id # id}
    /\ calls' = [calls EXCEPT ![i] = Null]
    /\ UNCHANGED nextTaskId
    /\ FrameTasksStep

\* CommentsService.create up to its first await: tasksService.findOne(taskId).
CommentsCreateCheck(header, taskId, dto) ==
    /\ JwtAuthGuard(header, now).passed
    /\ LET found == TaskService_findOne(taskId)
       IN IF found.status = 404
          THEN /\ Answer("POST /tasks/:taskId/comments", 404, found.body,
                         Passed(header, "CommentsController.create"))
               /\ UNCHANGED calls
          ELSE Suspend([op |-> "CommentsService.create", taskId |-> taskId, dto |-> dto,
                        userId |-> ReqUser(header).userId,
                        gate |-> Passed(header, "CommentsController.create")])
    /\ UNCHANGED <<comments, nextCommentId>>
    /\ FrameCommentsStep

\* CommentsService.create after the check: create and save; the INSERT is refused
\* when a foreign key of the row does not hold.
CommentsCreateSave(i) ==
    /\ calls[i] # Null
    /\ calls[i].op = "CommentsService.create"
    /\ nextCommentId <= MaxComments
    /\ LET comment == Entity(CommentColumns, [id |-> nextCommentId, commentDate |-> now],
                             Merge(calls[i].dto, [which_todo |-> calls[i].taskId,
                                                  created_by |-> calls[i].userId]))
       IN IF CommentForeignKeysHold(comment)
          THEN /\ Answer("POST /tasks/:taskId/comments", 201, comment, calls[i].gate)
               /\ comments' = comments \cup {comment}
               /\ nextCommentId' = nextCommentId + 1
          ELSE /\ Answer("POST /tasks/:taskId/comments", 500, InternalErrorBody,
                         calls[i].gate)
               /\ UNCHANGED <<comments, nextCommentId>>
    /\ calls' = [calls EXCEPT ![i] = Null]
    /\ FrameCommentsStep

\* CommentsService.remove up to its first await: findOne(id).
CommentsRemoveLoad(header, id) ==
    /\ JwtAuthGuard(header, now).passed
    /\ LET found == CommentsService_findOne(id)
       IN IF found.status = 404
          THEN /\ Answer("DELETE /tasks/:taskId/comments/:id", 404, found.body,
                         Passed(header, "CommentsController.remove"))
               /\ UNCHANGED calls
          ELSE Suspend([op |-> "CommentsService.remove", comment |-> found.row,
                        gate |-> Passed(header, "CommentsController.remove")])
    /\ UNCHANGED <<comments, nextCommentId>>
    /\ FrameCommentsStep

\* CommentsService.remove at its end: the DELETE of the row with the loaded id.
CommentsRemoveDelete(i) ==
    /\ calls[i] # Null
    /\ calls[i].op = "CommentsService.remove"
    /\ Answer("DELETE /tasks/:taskId/comments/:id", 200, Null, calls[i].gate)
    /\ comments' = {c \in comments : c.id # calls[i].comment.id}
    /\ calls' = [calls EXCEPT ![i] = Null]
    /\ UNCHANGED nextCommentId
    /\ FrameCommentsStep

\* TaskService.findAll up to its first await: getCount with the filters.
TaskFindAllCount(header, dto) ==
    /\ JwtAuthGuard(header, now).passed
    /\ Suspend([op |-> "TaskService.findAll", dto |-> dto,
                total |-> Cardinality({t \in tasks : TaskMatches(t, dto)}),
                gate |-> Passed(header, "TaskController.findAll")])
    /\ UNCHANGED <<tasks, nextTaskId>>
    /\ FrameTasksStep

\* TaskService.findAll at its end: getMany with skip, take, joins and order, and
\* the result built from this page and the total read before.
TaskFindAllPage(i) ==
    /\ calls[i] # Null
    /\ calls[i].op = "TaskService.findAll"
    /\ \E result \in TaskService_findAll(calls[i].dto) :
          Answer("GET /tasks", 200, [tasks |-> result.tasks, total |-> calls[i].total],
                 calls[i].gate)
    /\ calls' = [calls EXCEPT ![i] = Null]
    /\ UNCHANGED <<tasks, nextTaskId>>
    /\ FrameTasksStep

-----------------------------------------------------------------------------
(* UsersController reads: routes without a guard *)

\* Variant: find() without the select list of columns.
UsersService_findAll_noSelect == users

\* UsersService.findAll: every row, password left out.
UsersService_findAll == {Select(u, UserDefaultColumns) : u \in users}

\* UsersService.findOne(id): the row without password, or NotFoundException.
UsersService_findOne(id) ==
    IF \E u \in users : u.id = id
    THEN [status |-> 200, body |-> UserRelation(id)]
    ELSE [status |-> 404, body |-> NotFoundBody("Usuario no encontrado")]

\* GET /users
UsersFindAll ==
    /\ resp' = Response("GET /users", 200, UsersService_findAll)
    /\ gate' = Unguarded(now, "UsersController.findAll")
    /\ UNCHANGED <<userVars, tokenVars, envVars, crudVars>>

\* GET /users/:id
UsersFindOne(id) ==
    /\ LET r == UsersService_findOne(id)
       IN resp' = Response("GET /users/:id", r.status, r.body)
    /\ gate' = Unguarded(now, "UsersController.findOne")
    /\ UNCHANGED <<userVars, tokenVars, envVars, crudVars>>

-----------------------------------------------------------------------------
(* The database, outside the API *)

\* A row of 'users' deleted directly in the database (no route deletes users);
\* refused while a task or a comment refers to it.
DbDeleteUser(id) ==
    /\ \E u \in users : u.id = id
    /\ \A t \in tasks : t.created_by # id /\ t.assigned_to # id
    /\ \A c \in comments : c.created_by # id
    /\ users' = {u \in users : u.id # id}
    /\ UNCHANGED <<nextUserId, registered, creating, tokenVars, envVars, resp, gate, crudVars>>

-----------------------------------------------------------------------------
(* The clock *)

Tick ==
    /\ now < MaxClock
    /\ now' = now + 1
    /\ UNCHANGED <<userVars, tokenVars, expiresIn, resp, gate, crudVars>>

-----------------------------------------------------------------------------
(* Specifications *)

InitTables ==
    /\ tasks = {}
    /\ categories = {}
    /\ comments = {}
    /\ nextTaskId = 1
    /\ nextCategoryId = 1
    /\ nextCommentId = 1
    /\ calls = [i \in 1..MaxInFlight |-> Null]

InitCommon ==
    /\ creating = [i \in 1..MaxInFlight |-> Null]
    /\ attempt = Idle
    /\ issued = {}
    /\ now = 0
    /\ resp = NoResponse
    /\ gate = NoGate
    /\ InitTables

\* Registration and credential validation, from an empty user store.
Init ==
    /\ users = {}
    /\ nextUserId = 1
    /\ registered = << >>
    /\ expiresIn = 1
    /\ InitCommon

Next ==
    \/ \E dto \in CreateUserDtos : UsersCreateCheck(dto)
    \/ \E i \in 1..MaxInFlight : UsersCreateSave(i)
    \/ \E e \in Emails, p \in Passwords : LoginLookup(e, p)
    \/ LoginVerify
    \/ UsersFindAll
    \/ \E id \in UserIds : UsersFindOne(id)

Spec == Init /\ [][Next]_vars

\* The user store after Ana and Bob registered.
AnaDto == [fullName |-> "Ana Ruiz", email |-> "ana@x.com", password |-> Secret1]
BobDto == [fullName |-> "Ana Ruiz", email |-> "bob@x.com", password |-> LongA]

TwoUsers ==
    LET ana == UsersSave({}, 1, AnaDto,
                         bcrypt_hash(AnaDto.password, [cost |-> BcryptCost, salt |-> "saltA"]), 0)
    IN UsersSave(ana.store, 2, BobDto,
                 bcrypt_hash(BobDto.password, [cost |-> BcryptCost, salt |-> "saltB"]), 0).store

\* Token issuance and the gate, with two registered users and a running clock.
InitToken ==
    /\ users = TwoUsers
    /\ nextUserId = 3
    /\ registered = <<AnaDto.password, BobDto.password>>
    /\ expiresIn \in 0..MaxTTL
    /\ InitCommon

NextToken ==
    \/ \E e \in Emails, p \in Passwords : LoginLookup(e, p)
    \/ LoginVerify
    \/ LoginIssue
    \/ Tick
    \/ \E h \in Headers : CategoriesFindAll(h)

SpecToken == InitToken /\ [][NextToken]_vars

\* The identity validateUser returns for a registered user's own credentials.
IdentityOf(dto) == validateUser(TwoUsers, dto.email, dto.password)

\* Objects handed to AuthService.login: Bob's identity, and Ana's with any of id,
\* email, fullName missing.
LoginArguments ==
    {IdentityOf(BobDto)}
    \cup {Pick(IdentityOf(AnaDto), f \cup {"createdAt"}) : f \in SUBSET {"id", "email", "fullName"}}

\* AuthService.login as a function of its argument, with two registered users and
\* a running clock.
NextLogin ==
    \/ Tick
    \/ \E user \in LoginArguments : LoginWith(user)

SpecLogin == InitToken /\ [][NextLogin]_vars

\* What a login of a registered user at a given time adds to the tokens handed out.
LoginAt(dto, ttl, clock) ==
    [token |-> AuthService_login(IdentityOf(dto), JWT_SECRET, ttl, clock).access_token,
     identity |-> IdentityOf(dto)]

\* With tokens living one second: Ana logged in at 0, Bob at 1, and it is 1 now, so
\* Ana's token has expired and Bob's is valid.
GateIssued == {LoginAt(AnaDto, 1, 0), LoginAt(BobDto, 1, 1)}

\* Headers sent to the guarded routes: none, another scheme, a malformed token,
\* the two issued tokens and Bob's token with its signature flipped.
GateHeaders ==
    LET t == LoginAt(BobDto, 1, 1).token
    IN {NoHeader, Bearer(MalformedToken), Bearer(LoginAt(AnaDto, 1, 0).token), Bearer(t),
        Bearer([t EXCEPT !.signature = Flipped(t.signature)])}

GateCategoryDtos == {[name |-> "Work"]}
GateCategoryUpdates == {[color |-> "#FF5733"]}
GateTaskDtos == {[name |-> "Write report"]}
GateTaskUpdates == {[status |-> "IN_PROGRESS"]}
GateTaskQueries == {[limit |-> 1]}
GateCommentDtos == {[content |-> "Looks good"]}

\* Every route of the four controllers, after Ana and Bob registered and logged in.
InitGate ==
    /\ users = TwoUsers
    /\ nextUserId = 3
    /\ registered = <<AnaDto.password, BobDto.password>>
    /\ expiresIn = 1
    /\ creating = [i \in 1..MaxInFlight |-> Null]
    /\ attempt = Idle
    /\ issued = GateIssued
    /\ now = 1
    /\ resp = NoResponse
    /\ gate = NoGate
    /\ InitTables

\* Clients that keep at most one category, one task and one comment at a time.
NextGate ==
    \/ UsersFindAll
    \/ \E id \in UserIds : UsersFindOne(id)
    \/ \E h \in GateHeaders, dto \in GateCategoryDtos :
          categories = {} /\ CategoriesCreate(h, dto)
    \/ \E h \in GateHeaders : CategoriesFindAll(h)
    \/ \E h \in GateHeaders, id \in CategoryIds : CategoriesFindOne(h, id)
    \/ \E h \in GateHeaders, id \in CategoryIds, dto \in GateCategoryUpdates :
          CategoriesUpdate(h, id, dto)
    \/ \E h \in GateHeaders, id \in CategoryIds : CategoriesRemove(h, id)
    \/ \E h \in GateHeaders, dto \in GateTaskDtos : tasks = {} /\ TaskCreate(h, dto)
    \/ \E h \in GateHeaders, dto \in GateTaskQueries : TaskFindAll(h, dto)
    \/ \E h \in GateHeaders, id \in TaskIds : TaskFindOne(h, id)
    \/ \E h \in GateHeaders, id \in TaskIds, dto \in GateTaskUpdates : TaskUpdate(h, id, dto)
    \/ \E h \in GateHeaders, id \in TaskIds : TaskRemove(h, id)
    \/ \E h \in GateHeaders, t \in TaskIds, dto \in GateCommentDtos :
          comments = {} /\ CommentsCreate(h, t, dto)
    \/ \E h \in GateHeaders, t \in TaskIds : CommentsFindByTask(h, t)
    \/ \E h \in GateHeaders, t \in TaskIds, id \in CommentIds : CommentsFindOne(h, t, id)
    \/ \E h \in GateHeaders, t \in TaskIds, id \in CommentIds : CommentsRemove(h, t, id)

SpecGate == InitGate /\ [][NextGate]_vars

\* Creation of tasks and comments by two logged-in users, with bodies that may
\* carry a created_by of their own.
StampIssued == {LoginAt(AnaDto, 1, 1), LoginAt(BobDto, 1, 1)}

StampHeaders == {NoHeader} \cup {Bearer(i.token) : i \in StampIssued}

StampTaskDtos == {[name |-> "Write report"], [name |-> "Buy milk", created_by |-> 2]}

InitStamp ==
    /\ users = TwoUsers
    /\ nextUserId = 3
    /\ registered = <<AnaDto.password, BobDto.password>>
    /\ expiresIn = 1
    /\ creating = [i \in 1..MaxInFlight |-> Null]
    /\ attempt = Idle
    /\ issued = StampIssued
    /\ now = 1
    /\ resp = NoResponse
    /\ gate = NoGate
    /\ InitTables

NextStamp ==
    \/ \E h \in StampHeaders, dto \in StampTaskDtos : TaskCreate(h, dto)
    \/ \E h \in StampHeaders, t \in TaskIds, dto \in CreateCommentDtos :
          CommentsCreate(h, t, dto)

SpecStamp == InitStamp /\ [][NextStamp]_vars

\* The gate while the user store changes under it: rows of 'users' disappear, the
\* clock runs, and the issued tokens keep being presented.
NextStateless ==
    \/ Tick
    \/ \E id \in UserIds : DbDeleteUser(id)
    \/ UsersFindAll
    \/ \E id \in UserIds : UsersFindOne(id)
    \/ \E h \in GateHeaders : CategoriesFindAll(h)
    \/ \E h \in GateHeaders, dto \in GateTaskQueries : TaskFindAll(h, dto)

SpecStateless == InitGate /\ [][NextStateless]_vars

-----------------------------------------------------------------------------
\* Lifetime of the tokens of a session that stays logged in while the clock runs.
SessionTTL == MaxClock + 1

SessionIssued == {LoginAt(AnaDto, SessionTTL, 0)}

\* The header of the logged-in user's requests, and the headers of all requests.
LoggedIn == {Bearer(i.token) : i \in SessionIssued}

SessionHeaders == {NoHeader} \cup LoggedIn

\* The stores after Ana and Bob registered and Ana logged in at 0.
InitSession ==
    /\ users = TwoUsers
    /\ nextUserId = 3
    /\ registered = <<AnaDto.password, BobDto.password>>
    /\ expiresIn = SessionTTL
    /\ issued = SessionIssued
    /\ creating = [i \in 1..MaxInFlight |-> Null]
    /\ attempt = Idle
    /\ now = 0
    /\ resp = NoResponse
    /\ gate = NoGate
    /\ InitTables

\* One task at a time, created and updated, with categories to refer to.
NextTasks ==
    \/ Tick
    \/ \E h \in SessionHeaders, dto \in GateCategoryDtos \cup {[name |-> "Home"]} :
          CategoriesCreate(h, dto)
    \/ \E h \in SessionHeaders, dto \in CreateTaskDtos : tasks = {} /\ TaskCreate(h, dto)
    \/ \E h \in SessionHeaders, id \in TaskIds, dto \in UpdateTaskDtos : TaskUpdate(h, id, dto)

SpecTasks == InitSession /\ [][NextTasks]_vars

-----------------------------------------------------------------------------

\* Tasks created at different times by a logged-in user and listed with filters
\* and pages.
NextQuery ==
    \/ Tick
    \/ \E h \in SessionHeaders, dto \in GateCategoryDtos :
          categories = {} /\ CategoriesCreate(h, dto)
    \/ \E h \in SessionHeaders, dto \in CreateTaskDtos : TaskCreate(h, dto)
    \/ \E h \in SessionHeaders, dto \in GetTasksDtos : TaskFindAll(h, dto)

SpecQuery == InitSession /\ [][NextQuery]_vars

-----------------------------------------------------------------------------

\* CategoriesService create, update and remove calls of a logged-in user, any
\* number of them in flight up to MaxInFlight, interleaved at their awaits.
NextCategoriesRace ==
    \/ \E h \in SessionHeaders, dto \in CreateCategoryDtos : CategoriesCreateCheck(h, dto)
    \/ \E i \in DOMAIN calls : CategoriesCreateSave(i)
    \/ \E h \in SessionHeaders, id \in CategoryIds, dto \in UpdateCategoryDtos :
          CategoriesUpdateLoad(h, id, dto)
    \/ \E i \in DOMAIN calls : CategoriesUpdateCheck(i)
    \/ \E i \in DOMAIN calls : CategoriesUpdateSave(i)
    \/ \E h \in SessionHeaders, id \in CategoryIds : CategoriesRemoveLoad(h, id)
    \/ \E i \in DOMAIN calls : CategoriesRemoveDelete(i)

SpecCategoriesRace == InitSession /\ [][NextCategoriesRace]_vars

-----------------------------------------------------------------------------

\* Comments written, read and deleted by a logged-in user on tasks that come and
\* go, through paths that may name a task that is not stored or another task.
NextComments ==
    \/ Tick
    \/ \E h \in LoggedIn, dto \in GateTaskDtos : TaskCreate(h, dto)
    \/ \E h \in LoggedIn, id \in TaskIds : TaskRemove(h, id)
    \/ \E h \in LoggedIn, t \in TaskIds, dto \in CreateCommentDtos :
          CommentsCreate(h, t, dto)
    \/ \E h \in LoggedIn, t \in TaskIds : CommentsFindByTask(h, t)
    \/ \E h \in LoggedIn, t \in TaskIds, id \in CommentIds : CommentsFindOne(h, t, id)
    \/ \E h \in LoggedIn, t \in TaskIds, id \in CommentIds : CommentsRemove(h, t, id)

SpecComments == InitSession /\ [][NextComments]_vars

-----------------------------------------------------------------------------

\* Rows of the three tables created, read, updated and removed by id by a
\* logged-in user; the ids asked for include ids that are not stored.
NextByIds ==
    \/ \E h \in LoggedIn, dto \in GateCategoryDtos : CategoriesCreate(h, dto)
    \/ \E h \in LoggedIn, id \in CategoryIds : CategoriesFindOne(h, id)
    \/ \E h \in LoggedIn, id \in CategoryIds, dto \in GateCategoryUpdates :
          CategoriesUpdate(h, id, dto)
    \/ \E h \in LoggedIn, id \in CategoryIds : CategoriesRemove(h, id)
    \/ \E h \in LoggedIn, dto \in GateTaskDtos \cup {[name |-> "Buy milk", category_id |-> 1]} :
          TaskCreate(h, dto)
    \/ \E h \in LoggedIn, id \in TaskIds : TaskFindOne(h, id)
    \/ \E h \in LoggedIn, id \in TaskIds, dto \in GateTaskUpdates : TaskUpdate(h, id, dto)
    \/ \E h \in LoggedIn, id \in TaskIds : TaskRemove(h, id)
    \/ \E h \in LoggedIn, t \in TaskIds, dto \in GateCommentDtos : CommentsCreate(h, t, dto)
    \/ \E h \in LoggedIn, t \in TaskIds, id \in CommentIds : CommentsFindOne(h, t, id)
    \/ \E h \in LoggedIn, t \in TaskIds, id \in CommentIds : CommentsRemove(h, t, id)

SpecByIds == InitSession /\ [][NextByIds]_vars

-----------------------------------------------------------------------------

\* Task create / remove and comment create / remove calls of a logged-in user,
\* interleaved at their awaits.
NextCommentsRace ==
    \/ \E h \in LoggedIn, dto \in GateTaskDtos : TaskCreate(h, dto)
    \/ \E h \in LoggedIn, id \in TaskIds : TaskRemoveLoad(h, id)
    \/ \E i \in DOMAIN calls : TaskRemoveDelete(i)
    \/ \E h \in LoggedIn, t \in TaskIds, dto \in GateCommentDtos : CommentsCreateCheck(h, t, dto)
    \/ \E i \in DOMAIN calls : CommentsCreateSave(i)
    \/ \E h \in LoggedIn, id \in CommentIds : CommentsRemoveLoad(h, id)
    \/ \E i \in DOMAIN calls : CommentsRemoveDelete(i)

SpecCommentsRace == InitSession /\ [][NextCommentsRace]_vars

\* TaskService.findAll calls of a logged-in user, suspended between the count and
\* the page while tasks are created, updated and removed.
NextQueryRace ==
    \/ \E h \in LoggedIn, dto \in GateTaskDtos : TaskCreate(h, dto)
    \/ \E h \in LoggedIn, id \in TaskIds, dto \in GateTaskUpdates : TaskUpdate(h, id, dto)
    \/ \E h \in LoggedIn, id \in TaskIds : TaskRemove(h, id)
    \/ \E h \in LoggedIn, dto \in GetTasksDtos : TaskFindAllCount(h, dto)
    \/ \E i \in DOMAIN calls : TaskFindAllPage(i)

SpecQueryRace == InitSession /\ [][NextQueryRace]_vars

-----------------------------------------------------------------------------
(* Properties *)

Credentials == Emails \X Passwords

\* The email of these credentials has no user record.
UnknownEmail(c) == \A u \in users : u.email # c[1]

\* The email of these credentials is registered and the password does not match
\* the stored hash.
HashMismatch(c) == \E u \in users : u.email = c[1] /\ ~bcrypt_compare(c[2], u.password)

GenericLoginFailure ==
    Response("POST /auth/login", 401, UnauthorizedBody("Credenciales inválidas"))

\* C1: a login for an email without a user record and a login for a registered
\* email with a wrong password (one that does not match the stored hash) are
\* indistinguishable: validateUser returns null for both, and POST /auth/login
\* answers both with the same 401 and message.
C1_LoginFailuresIndistinguishable ==
    /\ \A a \in Credentials, b \in Credentials :
         (UnknownEmail(a) /\ HashMismatch(b)) =>
            /\ validateUser(users, a[1], a[2]) = Null
            /\ validateUser(users, b[1], b[2]) = Null
            /\ LocalAuthGuard(users, a[1], a[2]) = LocalAuthGuard(users, b[1], b[2])
            /\ LocalAuthGuard(users, a[1], a[2]).response = GenericLoginFailure
    /\ (resp.endpoint = "POST /auth/login" /\ resp.status # 201) => resp = GenericLoginFailure

\* Both failure cases exist in the store and a login has just been refused.
C1_Witness ==
    /\ \E a \in Credentials, b \in Credentials : UnknownEmail(a) /\ HashMismatch(b)
    /\ resp = GenericLoginFailure

\* C2 as stated: validateUser(email, password) returns an identity exactly when
\* a user record with that email exists and the password is the one it was
\* registered with; the identity is that record's id, email and fullName, without
\* password.
C2_ValidateUserCorrect ==
    /\ \A c \in Credentials :
         LET r == validateUser(users, c[1], c[2])
         IN /\ (r # Null) <=> (\E u \in users : u.email = c[1] /\ registered[u.id] = c[2])
            /\ (r # Null) =>
                 /\ "password" \notin DOMAIN r
                 /\ \E u \in users : /\ u.email = c[1]
                                     /\ r.id = u.id
                                     /\ r.email = u.email
                                     /\ r.fullName = u.fullName
    /\ attempt.pc = "validated" =>
         /\ "password" \notin DOMAIN attempt.user
         /\ \E u \in users : /\ attempt.user.id = u.id
                             /\ attempt.user.email = u.email
                             /\ attempt.user.fullName = u.fullName

\* C10: at most one user record per email, in every reachable state, under any
\* interleaving of UsersService.create calls.
C10_EmailUnique ==
    \A u1 \in users, u2 \in users : u1.email = u2.email => u1 = u2

\* Two create calls for one email both passed the existence check; the second
\* INSERT was refused.
C10_Witness ==
    /\ users # {}
    /\ resp = Response("POST /users", 500, InternalErrorBody)

\* The controller methods of the Users, Categories, Tasks and Comments modules.
CollaboratorHandlers ==
    {c \o "." \o m : c \in {"UsersController"}, m \in {"create", "findAll", "findOne"}}
    \cup {c \o "." \o m : c \in {"CategoriesController", "TaskController"},
                          m \in {"create", "findAll", "findOne", "update", "remove"}}
    \cup {c \o "." \o m : c \in {"CommentsController"},
                          m \in {"create", "findByTask", "findOne", "remove"}}

\* C3: the gate has exactly two outcomes for a request to a protected endpoint:
\* the handler runs with an identity {userId, email} attached, or the request is
\* answered 401 with no handler run; a rejected request changes no stored task,
\* category or comment.
C3_GateTwoOutcomes ==
    /\ [](gate.guard = "JwtAuthGuard" =>
            \/ /\ gate.passed
               /\ gate.handler \in CollaboratorHandlers
               /\ DOMAIN gate.user = {"userId", "email"}
               /\ resp.status # 401
            \/ /\ ~gate.passed
               /\ gate.handler = "none"
               /\ gate.user = Null
               /\ resp.status = 401)
    /\ [][(gate'.guard = "JwtAuthGuard" /\ ~gate'.passed) => UNCHANGED crudVars]_vars

\* With a task, a category and a comment stored, a DELETE without usable token
\* has just been refused.
C3_Witness ==
    /\ tasks # {} /\ categories # {} /\ comments # {}
    /\ gate.guard = "JwtAuthGuard"
    /\ ~gate.passed
    /\ resp = Response("DELETE /tasks/:id", 401, UnauthorizedDefaultBody)

\* C4 as stated: a handler of the Users, Categories, Tasks or Comments module runs
\* only for a request that carries an issued, unexpired bearer token.
C4_AllModulesGated ==
    gate.handler \in CollaboratorHandlers =>
        /\ gate.guard = "JwtAuthGuard"
        /\ gate.passed
        /\ \E i \in issued : gate.header = Bearer(i.token) /\ gate.at < i.token.payload.exp

\* The guard's decision for an issued or forged token presented at a given instant.
Accepts(token, clock) == JwtAuthGuard(Bearer(token), clock).passed

\* C5: a token issued by AuthService.login for an identity, presented before it
\* expires, is accepted, and the identity attached has userId = the identity's id
\* and email = the identity's email.
C5_TokenRoundTrip ==
    /\ \A i \in issued :
         now < i.token.payload.exp =>
            LET g == JwtAuthGuard(Bearer(i.token), now)
            IN /\ g.passed
               /\ g.user = [userId |-> i.identity.id, email |-> i.identity.email]
    /\ (gate.guard = "JwtAuthGuard" /\ gate.passed) =>
         \E i \in issued : /\ gate.header = Bearer(i.token)
                            /\ gate.user = [userId |-> i.identity.id, email |-> i.identity.email]

\* A request carrying an unexpired issued token went through to its handler.
C5_Witness ==
    /\ gate.guard = "JwtAuthGuard"
    /\ gate.passed
    /\ gate.handler = "CategoriesController.findAll"
    /\ resp.status = 200
    /\ \E i \in issued : gate.header = Bearer(i.token) /\ gate.at < i.token.payload.exp

\* C6: a token issued with TTL = 0, and any token presented after its
\* expires-at, is rejected with 401; a rejected issued token is never accepted
\* at a later time.
C6_Expiry ==
    /\ [](\A i \in issued :
            (expiresIn = 0 \/ now > i.token.payload.exp) =>
               LET g == JwtAuthGuard(Bearer(i.token), now)
               IN ~g.passed /\ g.status = 401)
    /\ [][\A i \in issued : ~Accepts(i.token, now) => ~Accepts(i.token, now')]_vars

\* The clock is past the expires-at of an issued token and the gate has just
\* refused a request for that reason.
C6_Witness ==
    /\ \E i \in issued : gate.header = Bearer(i.token) /\ gate.at > i.token.payload.exp
    /\ gate.info = "jwt expired"
    /\ resp.status = 401

\* C7 as stated: a correctly signed token is accepted exactly when
\* now <= expires-at, so still at the instant now = expires-at.
C7_AcceptedThroughExpiresAt ==
    \A i \in issued : Accepts(i.token, now) <=> now <= i.token.payload.exp

\* C7, amended: a correctly signed token is accepted exactly when
\* now < expires-at (it is rejected at the instant now = expires-at), and
\* verification fails only for a malformed token, an invalid signature or
\* now >= expires-at.
C7_AcceptedBeforeExpiresAt ==
    /\ \A i \in issued : Accepts(i.token, now) <=> now < i.token.payload.exp
    /\ \A t \in IssuedTokens \cup ForgedTokens \cup {MalformedToken} :
         LET g == JwtAuthGuard(Bearer(t), now)
         IN ~g.passed =>
              \/ t = MalformedToken /\ g.info = "jwt malformed"
              \/ t \in ForgedTokens /\ g.info = "invalid signature"
              \/ t \in IssuedTokens /\ now >= t.payload.exp /\ g.info = "jwt expired"

\* An issued token is presented at the very instant now = expires-at and refused.
C7_Witness ==
    /\ \E i \in issued : /\ gate.header = Bearer(i.token)
                          /\ gate.at = i.token.payload.exp
                          /\ i.token.payload.exp > i.token.payload.iat
    /\ gate.info = "jwt expired"
    /\ resp.status = 401

\* C8: the gate never accepts a token whose payload or signature differs from
\* a token issued under the server's secret: every forgery is refused.
C8_TamperResistance ==
    /\ \A h \in Headers : JwtAuthGuard(h, now).passed => h.credentials \in IssuedTokens
    /\ \A t \in ForgedTokens : ~Accepts(t, now)

\* Forgeries of an unexpired issued token exist and the gate has just refused one.
C8_Witness ==
    /\ \E i \in issued : /\ gate.at < i.token.payload.exp
                          /\ gate.header \in {Bearer(f) : f \in Forgeries(i.token)}
    /\ gate.info = "invalid signature"
    /\ resp.status = 401

\* The internal reasons for which the gate refuses the headers a client can send.
RefusalReasons == {JwtAuthGuard(h, now).info : h \in Headers} \ {NoInfo}

\* C9: a missing header, a malformed token, an expired token and a token with
\* a wrong signature all get the same answer: 401 with one fixed body, whatever
\* the internal reason.
C9_UniformRejection ==
    /\ \A h \in Headers :
         LET g == JwtAuthGuard(h, now)
             none == JwtAuthGuard(NoHeader, now)
         IN ~g.passed => /\ g.status = 401
                         /\ g.status = none.status
                         /\ g.body = none.body
    /\ (gate.guard = "JwtAuthGuard" /\ ~gate.passed) =>
         /\ resp.status = 401
         /\ resp.body = UnauthorizedDefaultBody

\* All four kinds of failure can be produced, and an expired token was refused.
C9_Witness ==
    /\ RefusalReasons = {"No auth token", "jwt malformed", "jwt expired", "invalid signature"}
    /\ gate.info = "jwt expired"
    /\ resp.status = 401

\* C11 as stated: every UsersService.create attempt that would violate email
\* uniqueness fails with the Conflict error (409) and adds no record, also when two
\* calls for one email both passed the existence check before either saved.
C11_DuplicateCreateConflicts ==
    /\ (resp.endpoint = "POST /users" /\ resp.status # 201) =>
          resp = Response("POST /users", 409, ConflictBody("El email ya está registrado"))
    /\ \A u1 \in users, u2 \in users : u1.email = u2.email => u1 = u2

\* C12 as stated: the body of the POST /users response does not include the
\* password hash, and neither does the body of a POST /auth/login response.
C12_NoHashInResponses ==
    /\ (resp.endpoint = "POST /users" /\ resp.status = 201) =>
          "password" \notin DOMAIN resp.body
    /\ (resp.endpoint = "POST /auth/login" /\ resp.status = 201) =>
          /\ "password" \notin DOMAIN resp.body
          /\ "password" \notin DOMAIN resp.body.user

\* C13: findOne(id) and findAll() never return the password hash of any user, in
\* any reachable state of the user store; of the three finders only findByEmail
\* returns it.
C13_ReadsOmitPassword ==
    /\ \A r \in UsersService_findAll : "password" \notin DOMAIN r
    /\ \A id \in UserIds : "password" \notin DOMAIN UsersService_findOne(id).body
    /\ \A u \in users : /\ "password" \in DOMAIN findByEmail(users, u.email)
                        /\ findByEmail(users, u.email).password = u.password
    /\ resp.endpoint = "GET /users" => \A r \in resp.body : "password" \notin DOMAIN r
    /\ resp.endpoint = "GET /users/:id" => "password" \notin DOMAIN resp.body

\* Two users are stored, each with a password hash, and GET /users has just
\* listed both.
C13_Witness ==
    /\ Cardinality(users) = 2
    /\ \A u \in users : u.password.digest # << >>
    /\ resp.endpoint = "GET /users"
    /\ Cardinality(resp.body) = 2

\* C14: AuthService.login(identity) signs the claims {sub: identity.id, email:
\* identity.email} and returns {access_token, user}, user having exactly the
\* identity's id, email and fullName: no password, no timestamp.
C14_LoginResult ==
    /\ \A u \in users :
         LET identity == validateUser(users, u.email, registered[u.id])
             r == AuthService_login(identity, JWT_SECRET, expiresIn, now)
         IN /\ DOMAIN r = {"access_token", "user"}
            /\ r.user = [id |-> u.id, email |-> u.email, fullName |-> u.fullName]
            /\ r.access_token.payload =
                  [sub |-> u.id, email |-> u.email, iat |-> now, exp |-> now + expiresIn]
    /\ (resp.endpoint = "POST /auth/login" /\ resp.status = 201) =>
         /\ DOMAIN resp.body = {"access_token", "user"}
         /\ DOMAIN resp.body.user = {"id", "email", "fullName"}
         /\ resp.body.user.id = gate.user.id
         /\ resp.body.user.email = gate.user.email
         /\ resp.body.user.fullName = gate.user.fullName
         /\ DOMAIN resp.body.access_token.payload = {"sub", "email", "iat", "exp"}
         /\ resp.body.access_token.payload.sub = gate.user.id
         /\ resp.body.access_token.payload.email = gate.user.email

\* A login has just been answered for an identity that carries a timestamp
\* besides id, email and fullName.
C14_Witness ==
    /\ resp.endpoint = "POST /auth/login"
    /\ resp.status = 201
    /\ gate.handler = "AuthController.login"
    /\ "createdAt" \in DOMAIN gate.user

\* C15: within a login attempt the steps come in the order lookup, password
\* verification, token issuance; a token is issued, and a login answered 201,
\* only from an attempt whose validation has succeeded.
C15_LoginStepsInOrder ==
    /\ [](attempt.pc = "validated" =>
            /\ attempt.user # Null
            /\ \E u \in users : u.id = attempt.user.id /\ u.email = attempt.user.email)
    /\ [][/\ (attempt' # attempt /\ attempt'.pc = "lookedUp") => attempt.pc = "idle"
          /\ (attempt' # attempt /\ attempt'.pc = "validated") =>
                /\ attempt.pc = "lookedUp"
                /\ attempt.user # Null
                /\ bcrypt_compare(attempt.password, attempt.user.password)
          /\ issued' # issued => attempt.pc = "validated" /\ attempt'.pc = "idle"
          /\ (<<resp, gate>>' # <<resp, gate>> /\ resp'.endpoint = "POST /auth/login"
                /\ resp'.status = 201) => attempt.pc = "validated"]_vars

\* A token has been issued, a later attempt was refused at verification, and
\* another one is waiting between lookup and verification.
C15_Witness ==
    /\ issued # {}
    /\ attempt.pc = "lookedUp"
    /\ resp = GenericLoginFailure

C16_LoginRejectsIncompleteIdentity ==
    /\ \A i \in issued : {"id", "email"} \subseteq DOMAIN i.identity
    /\ (gate.handler = "AuthController.login"
          /\ ~({"id", "email"} \subseteq DOMAIN gate.user)) =>
         /\ resp.status >= 400
         /\ "access_token" \notin DOMAIN resp.body

\* C18: plaintext passwords are never persisted: in every reachable state the
\* password field of every stored user is the bcrypt hash, with cost factor 10 and
\* a salt generated for that registration, of the password given at registration,
\* never the plaintext.
C18_OnlyHashesStored ==
    \A u \in users :
        /\ DOMAIN u.password = {"alg", "cost", "salt", "digest"}
        /\ u.password.cost = BcryptCost
        /\ u.password.salt \in Salts
        /\ u.password =
              bcrypt_hash(registered[u.id], [cost |-> BcryptCost, salt |-> u.password.salt])
        /\ u.password.digest # registered[u.id]
        /\ bcrypt_compare(registered[u.id], u.password)

\* Two users registered with the same password and got different hashes.
C18_Witness ==
    \E u1 \in users, u2 \in users :
        /\ u1.id # u2.id
        /\ registered[u1.id] = registered[u2.id]
        /\ u1.password # u2.password

\* C19: token verification is stateless: the gate's decision and the identity it
\* attaches depend on the token, the secret and the time only, so they are the
\* same whatever the user store holds, and a token whose subject no longer exists
\* is accepted until it expires.
C19_GateStateless ==
    /\ [](\A i \in issued :
            LET g == JwtAuthGuard(Bearer(i.token), now)
            IN /\ g.passed <=> now < i.token.payload.exp
               /\ g.passed => g.user = [userId |-> i.token.payload.sub,
                                        email |-> i.token.payload.email])
    /\ [][(now' = now /\ users' # users) =>
             \A h \in GateHeaders : JwtAuthGuard(h, now)' = JwtAuthGuard(h, now)]_vars

\* A request has just passed the gate with a token whose subject is no longer in
\* the user store.
C19_Witness ==
    /\ gate.guard = "JwtAuthGuard"
    /\ gate.passed
    /\ resp.status = 200
    /\ \A u \in users : u.id # gate.user.userId

C21_UpdateOnlyProvided ==
    [][\A h \in SessionHeaders, id \in TaskIds, dto \in UpdateTaskDtos :
         (TaskUpdate(h, id, dto) /\ resp'.status = 200) =>
            \E before \in tasks, after \in tasks' :
               /\ before.id = id
               /\ after.id = id
               /\ \A c \in TaskColumns :
                     after[c] = IF c \notin DOMAIN dto THEN before[c]
                                ELSE IF c = "dueDate" THEN NewDate(dto.dueDate)
                                ELSE dto[c]]_vars

\* The filters of a GetTasksDto, and a query without its limit and offset.
TaskFilters == {"status", "category_id", "assigned_to"}

\* The stored tasks that agree with every filter the query gives.
Filtered(store, dto) == {t \in store : \A f \in TaskFilters \cap DOMAIN dto : t[f] = dto[f]}

\* C22: the total that TaskService.findAll returns is the number of stored tasks
\* that satisfy every filter given (status, category_id, assigned_to; an absent
\* filter matches every task), and it is the same for every limit and offset.
C22_TotalCountsMatches ==
    /\ [](\A dto \in GetTasksDtos : \A result \in TaskService_findAll(dto) :
            /\ result.total = Cardinality(Filtered(tasks, dto))
            /\ \A other \in GetTasksDtos :
                  Pick(other, TaskFilters) = Pick(dto, TaskFilters) =>
                     \A r \in TaskService_findAll(other) : r.total = result.total)
    /\ [][\A h \in SessionHeaders, dto \in GetTasksDtos :
            (TaskFindAll(h, dto) /\ resp'.status = 200) =>
               resp'.body.total = Cardinality(Filtered(tasks, dto))]_vars

\* A filtered and paged GET /tasks was answered with total 1 while two tasks are
\* stored and the page asked for is empty: total counts the matches, not the
\* stored tasks and not the page.
C22_Witness ==
    /\ resp.endpoint = "GET /tasks"
    /\ resp.status = 200
    /\ resp.body.total = 1
    /\ resp.body.tasks = << >>
    /\ Cardinality(tasks) = 2

\* C23: the tasks that TaskService.findAll returns are the matching tasks at
\* positions offset+1 .. offset+limit of the matching tasks ordered by creation
\* time, newest first, with limit 10 and offset 0 when absent: at most limit
\* tasks, each a matching task and none twice, newest first, with exactly offset
\* matching tasks at least as new left out before them and every other matching
\* task at most as new as the last one; of 30 tasks, limit 10 and offset 20 give
\* the tasks 21..30.
C23_PageOfNewestFirst ==
    /\ Page([i \in 1..30 |-> i], 20, 10) = [i \in 1..10 |-> 20 + i]
    /\ [][\A h \in SessionHeaders, dto \in GetTasksDtos :
            (TaskFindAll(h, dto) /\ resp'.status = 200) =>
               LET limit == IF "limit" \in DOMAIN dto THEN dto.limit ELSE 10
                   offset == IF "offset" \in DOMAIN dto THEN dto.offset ELSE 0
                   matching == Filtered(tasks, dto)
                   n == Cardinality(matching)
                   page == resp'.body.tasks
                   rest == {t \in matching : \A i \in DOMAIN page : page[i].id # t.id}
               IN /\ Len(page) = IF n <= offset THEN 0
                                 ELSE IF n - offset <= limit THEN n - offset ELSE limit
                  /\ \A i \in DOMAIN page : \E t \in matching : page[i] = TaskWithRelations(t)
                  /\ \A i, j \in DOMAIN page :
                        i < j => /\ page[i].id # page[j].id
                                 /\ page[i].createdAt >= page[j].createdAt
                  /\ page # << >> =>
                        \E skipped \in SUBSET rest :
                           /\ Cardinality(skipped) = offset
                           /\ \A s \in skipped : s.createdAt >= page[1].createdAt
                           /\ \A s \in rest \ skipped :
                                 s.createdAt <= page[Len(page)].createdAt]_vars

\* GET /tasks with limit 1 and offset 1 was answered with the older of two tasks
\* created at different times.
C23_Witness ==
    /\ resp.endpoint = "GET /tasks"
    /\ resp.status = 200
    /\ resp.body.total = 2
    /\ Len(resp.body.tasks) = 1
    /\ \E t \in tasks : t.createdAt > resp.body.tasks[1].createdAt

\* The name a suspended create or update call is about to write is held by a
\* stored category other than the one the call writes.
NameTaken(call) ==
    /\ "name" \in DOMAIN call.dto
    /\ \E c \in categories :
          /\ c.name = call.dto.name
          /\ call.op = "CategoriesService.update" => c.id # call.category.id

\* C24: a category create whose name is already registered, and a category update
\* whose new name differs from the category's own and is held by another
\* category, is rejected with ConflictException (409) and changes nothing, in
\* every interleaving of create, update and remove calls; and no two stored
\* categories share a name.
C24_NameConflictsRejected ==
    /\ [](\A c1, c2 \in categories : c1.name = c2.name => c1 = c2)
    /\ [][\A h \in SessionHeaders, dto \in CreateCategoryDtos :
            (CategoriesCreateCheck(h, dto) /\ \E c \in categories : c.name = dto.name)
               => (resp'.status = 409 /\ categories' = categories)]_vars
    /\ [][\A i \in DOMAIN calls :
            ((CategoriesUpdateCheck(i) \/ CategoriesCreateSave(i) \/ CategoriesUpdateSave(i))
               /\ NameTaken(calls[i]))
               => (resp'.status = 409 /\ categories' = categories)]_vars

\* C25: CommentsService.create(taskId, dto, userId) for a task that is not stored
\* throws NotFoundException (404) and stores no comment; for a stored task it
\* stores exactly one new comment, with which_todo = taskId and the DTO's content.
C25_CommentNeedsTask ==
    [][\A h \in LoggedIn, taskId \in TaskIds, dto \in CreateCommentDtos :
         (CommentsCreate(h, taskId, dto) /\ gate'.passed) =>
            IF \E t \in tasks : t.id = taskId
            THEN \E c \in comments' \ comments :
                    /\ comments' = comments \cup {c}
                    /\ c.which_todo = taskId
                    /\ c.content = dto.content
                    /\ resp'.status = 201
                    /\ resp'.body = c
            ELSE /\ resp'.status = 404
                 /\ resp'.body.message = "Tarea no encontrada"
                 /\ comments' = comments]_vars

\* A comment was just stored on task 1 from a body that names task 2 as its
\* which_todo, while id 2 is the id of no stored task.
C25_Witness ==
    /\ resp.endpoint = "POST /tasks/:taskId/comments"
    /\ resp.status = 201
    /\ resp.body.content = "Moved"
    /\ resp.body.which_todo = 1
    /\ resp.body \in comments
    /\ 2 \in TaskIds
    /\ \A t \in tasks : t.id # 2

\* C26: for tasks, categories and comments, findOne, update and remove with an id
\* that is not stored throw NotFoundException (404) and leave every stored row
\* as it is; a successful remove(id) removes the row with that id and no other
\* row, and findOne(id) throws NotFoundException after it. (The guard's record
\* of a request holds the header it came with.)
C26_UnknownIdsAndRemoval ==
    /\ [][(gate'.passed /\ gate'.handler \in {"TaskController.findOne",
                  "TaskController.update", "TaskController.remove"}) =>
          \A id \in TaskIds :
            /\ ((TaskFindOne(gate'.header, id) \/ TaskRemove(gate'.header, id)
                   \/ \E dto \in GateTaskUpdates : TaskUpdate(gate'.header, id, dto))
                  /\ \A t \in tasks : t.id # id)
                 => (resp'.status = 404 /\ UNCHANGED <<tasks, categories, comments>>)
            /\ (TaskRemove(gate'.header, id) /\ resp'.status = 200)
                 => /\ \E t \in tasks : t.id = id
                    /\ tasks' = {t \in tasks : t.id # id}
                    /\ TaskService_findOne(id)'.status = 404
                    /\ UNCHANGED <<categories, comments>>]_vars
    /\ [][(gate'.passed /\ gate'.handler \in {"CategoriesController.findOne",
                  "CategoriesController.update", "CategoriesController.remove"}) =>
          \A id \in CategoryIds :
            /\ ((CategoriesFindOne(gate'.header, id) \/ CategoriesRemove(gate'.header, id)
                   \/ \E dto \in GateCategoryUpdates : CategoriesUpdate(gate'.header, id, dto))
                  /\ \A c \in categories : c.id # id)
                 => (resp'.status = 404 /\ UNCHANGED <<tasks, categories, comments>>)
            /\ (CategoriesRemove(gate'.header, id) /\ resp'.status = 200)
                 => /\ \E c \in categories : c.id = id
                    /\ categories' = {c \in categories : c.id # id}
                    /\ CategoriesService_findOne(id)'.status = 404
                    /\ UNCHANGED <<tasks, comments>>]_vars
    /\ [][(gate'.passed /\ gate'.handler \in {"CommentsController.findOne",
                  "CommentsController.remove"}) =>
          \A taskId \in TaskIds, id \in CommentIds :
            /\ ((CommentsFindOne(gate'.header, taskId, id) \/ CommentsRemove(gate'.header, taskId, id))
                  /\ \A c \in comments : c.id # id)
                 => (resp'.status = 404 /\ UNCHANGED <<tasks, categories, comments>>)
            /\ (CommentsRemove(gate'.header, taskId, id) /\ resp'.status = 200)
                 => /\ \E c \in comments : c.id = id
                    /\ comments' = {c \in comments : c.id # id}
                    /\ CommentsService_findOne(id)'.status = 404
                    /\ UNCHANGED <<tasks, categories>>]_vars

\* One of two comments of a task has just been removed: the other is still
\* stored, and the removed id is no longer found.
C26_Witness ==
    /\ resp.endpoint = "DELETE /tasks/:taskId/comments/:id"
    /\ resp.status = 200
    /\ nextCommentId = 3
    /\ Cardinality(comments) = 1
    /\ \E id \in CommentIds : CommentsService_findOne(id).status = 404 /\ id < nextCommentId

\* C27: CommentsService.findByTask(taskId) throws NotFoundException (404) when the
\* task is not stored; otherwise it returns every stored comment whose which_todo
\* is taskId, each once and with its author, oldest first, and no other comment.
C27_CommentsOfTask ==
    [][(gate'.passed /\ gate'.handler = "CommentsController.findByTask") =>
       \A taskId \in TaskIds :
          CommentsFindByTask(gate'.header, taskId) =>
             IF \A t \in tasks : t.id # taskId
             THEN resp'.status = 404 /\ resp'.body.message = "Tarea no encontrada"
             ELSE LET list == resp'.body
                      ofTask == {c \in comments : c.which_todo = taskId}
                  IN /\ resp'.status = 200
                     /\ Len(list) = Cardinality(ofTask)
                     /\ {Pick(list[i], CommentColumns) : i \in DOMAIN list} = ofTask
                     /\ \A i \in DOMAIN list :
                           /\ list[i].which_todo = taskId
                           /\ list[i].author = UserRelation(list[i].created_by)
                     /\ \A i, j \in DOMAIN list :
                           i < j => list[i].commentDate <= list[j].commentDate]_vars

\* The comments of one task were listed while a comment of another task is
\* stored: the one comment of the task came back and the other was left out.
C27_Witness ==
    /\ resp.endpoint = "GET /tasks/:taskId/comments"
    /\ resp.status = 200
    /\ Len(resp.body) = 1
    /\ \E c \in comments : c.which_todo # resp.body[1].which_todo

\* C28: every stored comment belongs to a stored task, in every state that
\* interleaved task create / remove and comment create / remove calls reach.
C28_CommentsBelongToTasks ==
    \A c \in comments : \E t \in tasks : t.id = c.which_todo

\* A comment create found its task, the task was removed before the comment was
\* saved, and the save has just been refused.
C28_Witness ==
    /\ resp.endpoint = "POST /tasks/:taskId/comments"
    /\ resp.status = 500
    /\ tasks = {}
    /\ nextTaskId > 1

\* C29: GET and DELETE /tasks/:taskId/comments/:id return or delete comment id
\* only when its which_todo is the taskId of the path; a comment is never read
\* or deleted through the path of another task.
C29_CommentsNestedUnderTask ==
    [][(gate'.passed /\ gate'.handler \in {"CommentsController.findOne",
                                           "CommentsController.remove"}) =>
       \A taskId \in TaskIds, id \in CommentIds :
          /\ (CommentsFindOne(gate'.header, taskId, id) /\ resp'.status = 200)
                => resp'.body.which_todo = taskId
          /\ (CommentsRemove(gate'.header, taskId, id) /\ resp'.status = 200)
                => \A c \in comments \ comments' : c.which_todo = taskId]_vars

\* C30: the result of one TaskService.findAll call is consistent: the tasks it
\* returns are a page of the matching tasks that total counts, so there are
\* never more returned tasks than total, also when task create, update or remove
\* calls run between the count query and the page query.
C30_PageWithinTotal ==
    (resp.endpoint = "GET /tasks" /\ resp.status = 200) =>
        Len(resp.body.tasks) <= resp.body.total

=============================================================================
